---------------------------- MODULE Spec2Model ----------------------------
(***************************************************************************)
(* A model of the framehook pipeline of src/main/framehook.c: the list of  *)
(* hooks a channel owns, ast_framehook_attach, ast_framehook_detach, the   *)
(* read/write dispatch framehook_list_push_event and                       *)
(* ast_framehook_list_destroy.                                             *)
(*                                                                         *)
(* The hooks' callbacks are code of the caller: the model stops at every   *)
(* callback invocation (pc names the callback that is running) and lets    *)
(* the callback call ast_framehook_detach and return any frame, so that    *)
(* re-entrant use of the list is part of the state space.  Between two     *)
(* callback invocations a handler runs as one step.                        *)
(*                                                                         *)
(* The second part models the tone detectors of the DSP module             *)
(* (src/unnamed/part_003): the DTMF/MF digit detector with its digit queue *)
(* and the call-progress classifier.  The Goertzel arithmetic is not       *)
(* modelled: a call is given, for every analysis block it completes, the   *)
(* outcome of the energy tests of that block.  The detectors have their    *)
(* own specifications (DigitSpec, ProgressSpec); in each specification the *)
(* parts it is not about stay in their initial state.                      *)
(***************************************************************************)
EXTENDS Integers, Sequences, FiniteSets, TLC

\* --------------------------------------------------------------- bounds
\* Successful attaches over a run.
MaxAttach == 3
\* Read/write dispatches over a run.
MaxPush == 2
\* Teardowns of an existing list over a run.
MaxDestroy == 1
\* Analysis blocks of the digit detector over a run.
MaxBlocks == 4
\* Calls of ast_dsp_getdigits, ast_dsp_digitreset and ast_dsp_digitmode over
\* a run.
MaxOps == 2
\* Blocks of the call-progress classifier over a run.
MaxToneBlocks == 5
\* Calls of the functions that are given a frame, of ast_dsp_busydetect and
\* of the setters over a run.
MaxCalls == 3
\* Calls of ast_dsp_process on no voice frame while a digit is held back,
\* which are not counted in MaxCalls.
MaxIdle == 1
\* Characters that follow the state's name in a string given to parse_data.
MaxTail == 6
\* Calls of ast_dsp_reset over a run.
MaxResets == 1
\* Passes of the do-while loop of a dispatch.
MaxPasses == 4

\* ------------------------------------------------------------ constants
\* frame pointers: NULL and two frames
NullFrame == 0
Frames == {NullFrame, 1, 2}
\* i->version as the caller compiled it: the core's own constant or another
AST_FRAMEHOOK_INTERFACE_VERSION == "compiled"
\* what a call of ast_framehook_attach is given: a sound call with or without
\* a destroy callback, and the calls with one or two things wrong
GoodInput == [version |-> AST_FRAMEHOOK_INTERFACE_VERSION, event_cb |-> TRUE,
              destroy_cb |-> FALSE, alloc_hook |-> TRUE, alloc_list |-> TRUE]
AttachInputs ==
    {GoodInput,
     [GoodInput EXCEPT !.destroy_cb = TRUE],
     [GoodInput EXCEPT !.version = "other"],
     [GoodInput EXCEPT !.event_cb = FALSE],
     [GoodInput EXCEPT !.alloc_hook = FALSE],
     [GoodInput EXCEPT !.alloc_list = FALSE],
     [GoodInput EXCEPT !.version = "other", !.event_cb = FALSE, !.destroy_cb = TRUE]}

\* ids a caller may hand to ast_framehook_detach: those attach can have
\* returned, and one (0) it never returns
DetachIds == 0..MaxAttach

VARIABLES
    fh_exists,       \* ast_channel_framehooks(chan) != NULL
    count,           \* framehooks->count
    id_count,        \* framehooks->id_count
    list,            \* framehooks->list, head first
    pc,              \* where the channel's thread is
    cur,             \* the hook whose callback runs (<<>>: none)
    event,           \* push_event: event
    frame,           \* push_event: frame
    original_frame,  \* push_event: original_frame
    skip,            \* push_event: skip[], skip[k+1] is the C skip[k]
    num,             \* push_event: num
    pos,             \* push_event: the list position of the traversal
    ret,             \* what the step just taken returned to the channel's
                     \* caller: [op, val] (a call a callback makes returns
                     \* to the callback)
    hk,              \* history: per hook ever attached, what it was told
    trace,           \* history: the READ/WRITE callbacks of the dispatch:
                     \* the hook, the pass, the frame it got (fin) and,
                     \* once it has returned (done), the frame it gave (fout)
    passes,          \* history: passes of the do-while loop of the dispatch
    list0,           \* history: the list when the dispatch began
    npush,           \* history: dispatches begun
    ndestroy,        \* history: lists torn down
    digitmode,       \* dsp->digitmode: the DTMF/MF bits
    td,              \* dsp->td: the digit detector's state
    dret,            \* what the last call on the digit detector returned
    dhist,           \* history: the analysis blocks of the digit detector
    tone,            \* dsp: gsamps, tstate, tcount, the CALL_PROGRESS bit
    tret,            \* what the last call of the classifier returned
    thist,           \* history: the blocks of the call-progress classifier
    features,        \* dsp->features but for the CALL_PROGRESS bit (in tone)
    sil,             \* dsp: threshold, totalsilence, totalnoise, busymaybe,
                     \* busycount, historicnoise, historicsilence
    modebits,        \* dsp->digitmode: the bits besides DTMF/MF
    thinkdigit,      \* dsp->thinkdigit
    pret,            \* what the last call that was given a frame, or the
                     \* last call of the busy detector, returned and did to
                     \* the frame
    phist,           \* history: the calls of those functions
    pd,              \* parse_data: the string given and what it returned
    en               \* the energies at the end of a block of the digit
                     \* detector, and what the block made of them

fhvars == <<fh_exists, count, id_count, list>>
pushvars == <<event, frame, original_frame, skip, num, pos>>
chanvars == <<fh_exists, count, id_count, list, pc, cur, event, frame,
              original_frame, skip, num, pos, ret, hk, trace, passes, list0,
              npush, ndestroy>>
digitvars == <<digitmode, td, dret, dhist>>
tonevars == <<tone, tret, thist>>
procvars == <<features, sil, modebits, thinkdigit, pret, phist>>
parsevars == <<pd>>
dspvars == <<digitvars, tonevars, procvars, parsevars, en>>
vars == <<chanvars, dspvars>>

NoHook == <<>>
\* the step returned from no call
NoRet == [op |-> "none", val |-> 0]

\* ------------------------------------------------------------- helpers
\* ++ on an unsigned int.  The counters here stay below MaxAttach + 1, far
\* from the 2^32 at which the C counter wraps (and from the 2^31 at which
\* the int that attach returns turns negative): the wrap is outside the model.
UIntInc(u) == u + 1

\* `return framehook->id;' from a function returning int, for an id < 2^31
UIntToInt(u) == u

\* mutant: the element is not unlinked
RemoveAt_Keep(s, i) == s

\* AST_LIST_REMOVE_CURRENT on the element at position i
RemoveAt(s, i) == [k \in 1..(Len(s) - 1) |-> IF k < i THEN s[k] ELSE s[k + 1]]

Zeros(n) == [k \in 1..n |-> 0]

\* what a hook has been told since it was attached.  id: its id; epoch: how
\* many lists had been torn down when it was attached; rid: what attach
\* returned for it (0: attach has not returned); req: a detach found it;
\* first: its first event; attached, detached: the ATTACHED and DETACHED
\* events it got; destroyed: the calls of its destroy_cb; rw_late: it got a
\* READ or WRITE after a detach had found it or after DETACHED
NewHistory(id, epoch) ==
    [id |-> id, epoch |-> epoch, rid |-> 0, req |-> FALSE,
     first |-> "NONE", attached |-> 0, detached |-> 0, destroyed |-> 0,
     rw_late |-> FALSE]

\* hook uid's event_cb is invoked with event ev
Deliver(h, uid, ev) ==
    [h EXCEPT ![uid] =
        [@ EXCEPT !.first = IF @ = "NONE" THEN ev ELSE @,
                  !.attached = IF ev = "ATTACHED" THEN @ + 1 ELSE @,
                  !.detached = IF ev = "DETACHED" THEN @ + 1 ELSE @,
                  !.rw_late = @ \/ (ev \in {"READ", "WRITE"}
                                    /\ (h[uid].req \/ h[uid].detached > 0))]]

\* hook uid's destroy_cb is invoked
DeliverDestroy(h, uid) ==
    [h EXCEPT ![uid].destroyed = @ + 1]

\* the dispatch history is dropped when the next top-level call begins
ClearDispatchHistory ==
    /\ trace' = <<>>
    /\ passes' = 0
    /\ list0' = <<>>
    /\ event' = "NONE"
    /\ frame' = NullFrame
    /\ original_frame' = NullFrame
    /\ skip' = <<>>
    /\ num' = 0
    /\ pos' = 0

\* a channel before its first attach
FramehookInit ==
    /\ fh_exists = FALSE
    /\ count = 0
    /\ id_count = 0
    /\ list = <<>>
    /\ pc = "idle"
    /\ cur = NoHook
    /\ event = "NONE"
    /\ frame = NullFrame
    /\ original_frame = NullFrame
    /\ skip = <<>>
    /\ num = 0
    /\ pos = 0
    /\ ret = NoRet
    /\ hk = <<>>
    /\ trace = <<>>
    /\ passes = 0
    /\ list0 = <<>>
    /\ npush = 0
    /\ ndestroy = 0


\* ------------------------------------------------- ast_framehook_attach
\* mutant: a missing event callback is not refused
AttachFails_NoCbCheck(version, has_event_cb, alloc_hook, alloc_list) ==
    \/ version # AST_FRAMEHOOK_INTERFACE_VERSION
    \/ ~alloc_hook
    \/ (~fh_exists /\ ~alloc_list)

\* the conditions of the three `return -1;' at lines 130, 135 and 143
AttachFails(version, has_event_cb, alloc_hook, alloc_list) ==
    \/ version # AST_FRAMEHOOK_INTERFACE_VERSION
    \/ ~has_event_cb
    \/ ~alloc_hook
    \/ (~fh_exists /\ ~alloc_list)

\* the three `return -1;' of ast_framehook_attach
AttachReject ==
    /\ ret' = [op |-> "attach", val |-> -1]
    /\ UNCHANGED <<fhvars, pc, cur, hk, npush, ndestroy>>

\* mutant: the id is taken from the number of hooks now in the list
NextId_FromLive == Len(list) + 1

\* `++ast_channel_framehooks(chan)->id_count' at line 151; a list made at
\* line 143 is zeroed by ast_calloc
NextId == UIntInc(IF fh_exists THEN id_count ELSE 0)

\* mutant: the hook is linked in at the head and ATTACHED is not sent
AttachAccept_HeadSilent(has_destroy_cb) ==
    LET uid == Len(hk) + 1
        newid == NextId
        h == [uid |-> uid, id |-> newid, detach_and_destroy_me |-> FALSE,
              destroy_cb |-> has_destroy_cb]
    IN  /\ fh_exists' = TRUE
        /\ count' = UIntInc(IF fh_exists THEN count ELSE 0)
        /\ id_count' = newid
        /\ list' = <<h>> \o (IF fh_exists THEN list ELSE <<>>)
        /\ hk' = Append(hk, NewHistory(newid, ndestroy))
        /\ pc' = "attach_cb"
        /\ cur' = h
        /\ ret' = NoRet
        /\ UNCHANGED <<npush, ndestroy>>

\* lines 138-155: the hook is linked in and told ATTACHED
AttachAccept(has_destroy_cb) ==
    LET uid == Len(hk) + 1
        newid == NextId
        h == [uid |-> uid, id |-> newid, detach_and_destroy_me |-> FALSE,
              destroy_cb |-> has_destroy_cb]
    IN  /\ fh_exists' = TRUE
        /\ count' = UIntInc(IF fh_exists THEN count ELSE 0)
        /\ id_count' = newid
        /\ list' = Append(IF fh_exists THEN list ELSE <<>>, h)
        /\ hk' = Deliver(Append(hk, NewHistory(newid, ndestroy)), uid, "ATTACHED")
        /\ pc' = "attach_cb"
        /\ cur' = h
        /\ ret' = NoRet
        /\ UNCHANGED <<npush, ndestroy>>

\* i is the interface the caller hands in and what calloc answers
Attach(i) ==
    /\ pc = "idle"
    /\ UNCHANGED dspvars
    /\ ClearDispatchHistory
    /\ IF AttachFails(i.version, i.event_cb, i.alloc_hook, i.alloc_list)
       THEN AttachReject
       ELSE Len(hk) < MaxAttach /\ AttachAccept(i.destroy_cb)

\* the ATTACHED callback returns; line 163
AttachReturn ==
    /\ pc = "attach_cb"
    /\ UNCHANGED dspvars
    /\ ret' = [op |-> "attach", val |-> UIntToInt(cur.id)]
    /\ hk' = [hk EXCEPT ![cur.uid].rid = UIntToInt(cur.id)]
    /\ pc' = "idle"
    /\ cur' = NoHook
    /\ UNCHANGED <<fhvars, pushvars, trace, passes, list0, npush, ndestroy>>

\* ------------------------------------------------- ast_framehook_detach
\* the list positions whose hook has this id
Matching(id) == {k \in 1..Len(list) : list[k].id = id}

First(S) == CHOOSE k \in S : \A j \in S : k <= j

\* the return of a call made at top level or from inside a callback
Return(op, val) ==
    ret' = IF pc = "idle" THEN [op |-> op, val |-> val] ELSE NoRet

\* mutant: detach unlinks the hook and tells it DETACHED on the spot
DetachMark_Sync(k) ==
    /\ list' = RemoveAt(list, k)
    /\ hk' = Deliver([hk EXCEPT ![list[k].uid].req = TRUE], list[k].uid, "DETACHED")
    /\ Return("detach", 0)
    /\ UNCHANGED <<fh_exists, count, id_count, pc, cur, npush, ndestroy>>

\* lines 176-183: the hook at position k is marked
DetachMark(k) ==
    /\ list' = [list EXCEPT ![k].detach_and_destroy_me = TRUE]
    /\ hk' = [hk EXCEPT ![list[k].uid].req = TRUE]
    /\ Return("detach", 0)
    /\ UNCHANGED <<fh_exists, count, id_count, pc, cur, npush, ndestroy>>

\* the callback contexts: a hook's event_cb is running
Detach(id) ==
    /\ pc \in {"idle"} \cup ({"attach_cb", "push_cb", "push_detached_cb", "destroy_detached_cb"})
    /\ UNCHANGED dspvars
    /\ IF pc = "idle"
       THEN ClearDispatchHistory
       ELSE UNCHANGED <<pushvars, trace, passes, list0>>
    /\ IF fh_exists /\ Matching(id) # {}
       THEN DetachMark(First(Matching(id)))
       ELSE /\ Return("detach", -1)
            /\ UNCHANGED <<fhvars, pc, cur, hk, npush, ndestroy>>

\* -------------------------------------------- framehook_list_push_event
\* mutant: after a substitution the traversal goes on with the next hook
PassEnd_NoRestart(fr) ==
    IF fr # original_frame
    THEN /\ original_frame' = fr
         /\ num' = num + 1
         /\ pos' = pos + 1
         /\ passes' = passes
         /\ pc' = "push_loop"
         /\ ret' = NoRet
    ELSE /\ pc' = "idle"
         /\ ret' = [op |-> "push", val |-> fr]
         /\ UNCHANGED <<original_frame, num, pos, passes>>

\* `while (frame != original_frame)' at line 120, frame being fr
PassEnd(fr) ==
    IF fr # original_frame
    THEN /\ original_frame' = fr
         /\ num' = 0
         /\ pos' = 1
         /\ passes' = passes + 1
         /\ pc' = "push_loop"
         /\ ret' = NoRet
    ELSE /\ pc' = "idle"
         /\ ret' = [op |-> "push", val |-> fr]
         /\ UNCHANGED <<original_frame, num, pos, passes>>

\* ast_framehook_list_read_event / ast_framehook_list_write_event
PushBegin(ev, f) ==
    /\ pc = "idle"
    /\ UNCHANGED dspvars
    /\ npush < MaxPush
    /\ npush' = npush + 1
    /\ trace' = <<>>
    /\ event' = ev
    /\ frame' = f
    /\ original_frame' = f
    /\ num' = 0
    /\ IF ~fh_exists
       THEN /\ ret' = [op |-> "push", val |-> f]
            /\ skip' = <<>>
            /\ pos' = 0
            /\ passes' = 0
            /\ list0' = <<>>
            /\ pc' = "idle"
       ELSE /\ skip' = Zeros(count)
            /\ pos' = 1
            /\ passes' = 1
            /\ list0' = list
            /\ pc' = "push_loop"
            /\ ret' = NoRet
    /\ UNCHANGED <<fhvars, cur, hk, ndestroy>>

\* mutant: the dispatch does not look at the flag
MarkedForDestruction_Never(h) == FALSE

\* `if (framehook->detach_and_destroy_me)' at line 96
MarkedForDestruction(h) == h.detach_and_destroy_me

\* mutant: the substituting hook is not marked as to be skipped
SkipSet_Forgotten(sk, n) == sk

\* `skip[num] = 1;' at line 113
SkipSet(sk, n) == [sk EXCEPT ![n + 1] = 1]

\* One iteration of the traversal, up to the callback it invokes.  skip[] is
\* the alloca of line 88, count ints long: skip[num] for a num beyond it
\* reads whatever the stack holds there.
PushStep ==
    /\ pc = "push_loop"
    /\ UNCHANGED dspvars
    /\ IF pos > Len(list)
       THEN /\ PassEnd(frame)
            /\ UNCHANGED <<fhvars, cur, hk, trace, event, frame, skip>>
       ELSE LET h == list[pos] IN
            IF MarkedForDestruction(h)
            THEN /\ list' = RemoveAt(list, pos)
                 /\ cur' = h
                 /\ hk' = Deliver(hk, h.uid, "DETACHED")
                 /\ pc' = "push_detached_cb"
                 /\ ret' = NoRet
                 /\ UNCHANGED <<fh_exists, count, id_count, pushvars,
                                trace, passes>>
            ELSE \E skipped \in (IF num < Len(skip) THEN {skip[num + 1] # 0}
                                 ELSE BOOLEAN) :
                 IF skipped
                 THEN /\ num' = num + 1
                      /\ pos' = pos + 1
                      /\ ret' = NoRet
                      /\ UNCHANGED <<fhvars, pc, cur, hk, trace, passes,
                                     event, frame, original_frame, skip>>
                 ELSE /\ cur' = h
                      /\ hk' = Deliver(hk, h.uid, event)
                      /\ trace' = Append(trace, [uid |-> h.uid, pass |-> passes,
                                                 fin |-> frame, fout |-> frame,
                                                 done |-> FALSE])
                      /\ pc' = "push_cb"
                      /\ ret' = NoRet
                      /\ UNCHANGED <<fhvars, pushvars, passes>>
    /\ UNCHANGED <<list0, npush, ndestroy>>

\* the READ/WRITE callback returns frame f; lines 109-117
PushCbReturn(f) ==
    /\ pc = "push_cb"
    /\ f # original_frame => passes < MaxPasses
    /\ UNCHANGED dspvars
    /\ frame' = f
    /\ trace' = [trace EXCEPT ![Len(trace)].fout = f,
                              ![Len(trace)].done = TRUE]
    /\ cur' = NoHook
    /\ IF f # original_frame
       THEN /\ skip' = SkipSet(skip, num)
            /\ PassEnd(f)
       ELSE /\ num' = num + 1
            /\ pos' = pos + 1
            /\ pc' = "push_loop"
            /\ ret' = NoRet
            /\ UNCHANGED <<skip, original_frame, passes>>
    /\ UNCHANGED <<fhvars, event, hk, list0, npush, ndestroy>>

\* mutant: the hook is freed without its destroy callback being called
DetachAndDestroyRest_NoDestroyCb ==
    /\ hk' = hk
    /\ cur' = NoHook

\* framehook_detach_and_destroy after the DETACHED callback; lines 65-73
DetachAndDestroyRest ==
    /\ hk' = IF cur.destroy_cb THEN DeliverDestroy(hk, cur.uid) ELSE hk
    /\ cur' = NoHook

PushDetachedReturn ==
    /\ pc = "push_detached_cb"
    /\ UNCHANGED dspvars
    /\ DetachAndDestroyRest
    /\ pc' = "push_loop"
    /\ ret' = NoRet
    /\ UNCHANGED <<fhvars, pushvars, trace, passes, list0, npush, ndestroy>>

\* ast_framehook_attach called by the READ/WRITE callback that is running,
\* for the channel of the dispatch (lines 125-163): the hook is linked in at
\* the tail, its ATTACHED callback runs and returns, and the call returns
\* the id to the callback.  The traversal macro has read the next pointer
\* of the running hook before the callback ran: the model takes the calls
\* made by a hook that is not the last of the list, for which the hook
\* linked in is met later in the same pass.
AttachInCallback(has_destroy_cb) ==
    LET uid == Len(hk) + 1
        newid == NextId
        h == [uid |-> uid, id |-> newid, detach_and_destroy_me |-> FALSE,
              destroy_cb |-> has_destroy_cb]
    IN /\ pc = "push_cb"
       /\ pos < Len(list)
       /\ Len(hk) < MaxAttach
       /\ count' = UIntInc(count)
       /\ id_count' = newid
       /\ list' = Append(list, h)
       /\ hk' = [Deliver(Append(hk, NewHistory(newid, ndestroy)), uid, "ATTACHED")
                   EXCEPT ![uid].rid = UIntToInt(newid)]
       /\ UNCHANGED <<fh_exists, pc, cur, ret, pushvars, trace, passes, list0,
                      npush, ndestroy, dspvars>>

\* ------------------------------------------- ast_framehook_list_destroy
ListDestroy ==
    /\ pc = "idle"
    /\ UNCHANGED dspvars
    /\ ClearDispatchHistory
    /\ IF ~fh_exists
       THEN /\ ret' = [op |-> "destroy", val |-> 0]
            /\ UNCHANGED pc
       ELSE /\ ndestroy < MaxDestroy
            /\ pc' = "destroy_loop"
            /\ ret' = NoRet
    /\ UNCHANGED <<fhvars, cur, hk, npush, ndestroy>>

\* one iteration of the traversal of lines 198-202, or lines 203-205
DestroyStep ==
    /\ pc = "destroy_loop"
    /\ UNCHANGED dspvars
    /\ IF list # <<>>
       THEN /\ list' = Tail(list)
            /\ cur' = Head(list)
            /\ hk' = Deliver(hk, Head(list).uid, "DETACHED")
            /\ pc' = "destroy_detached_cb"
            /\ ret' = NoRet
            /\ UNCHANGED <<fh_exists, count, id_count, ndestroy>>
       ELSE /\ fh_exists' = FALSE
            /\ count' = 0
            /\ id_count' = 0
            /\ ret' = [op |-> "destroy", val |-> 0]
            /\ ndestroy' = ndestroy + 1
            /\ pc' = "idle"
            /\ UNCHANGED <<list, cur, hk>>
    /\ UNCHANGED <<pushvars, trace, passes, list0, npush>>

DestroyDetachedReturn ==
    /\ pc = "destroy_detached_cb"
    /\ UNCHANGED dspvars
    /\ DetachAndDestroyRest
    /\ pc' = "destroy_loop"
    /\ ret' = NoRet
    /\ UNCHANGED <<fhvars, pushvars, trace, passes, list0, npush, ndestroy>>

\* ast_framehook_list_is_empty(ast_channel_framehooks(chan))
ast_framehook_list_is_empty ==
    IF ~fh_exists THEN 1 ELSE IF list = <<>> THEN 1 ELSE 0

\* ======================================================================
\* The digit detector of the DSP module (src/unnamed/part_003)
\* ======================================================================
\* ------------------------------------------------------------ constants
MAX_DTMF_DIGITS == 128
\* samples of a DTMF analysis block
DTMF_GSIZE == 102
\* samples of an MF analysis block
MF_GSIZE == 160
\* the character 'f' of a fax event
FAX_HIT == 102
\* the fax counter a fax event needs to exceed
FAX_HITS_NEEDED == 5
\* "123A" "456B" "789C" "*0#D" as character codes, row-major
dtmf_positions ==
    <<49, 50, 51, 65,  52, 53, 54, 66,  55, 56, 57, 67,  42, 48, 35, 68>>
\* the MF digit of a pair of tones, as character codes (0: none)
mf_hit ==
    << <<0, 49, 50, 52, 55, 67>>,
       <<49, 0, 51, 53, 56, 65>>,
       <<50, 51, 0, 54, 57, 42>>,
       <<52, 53, 54, 0, 48, 66>>,
       <<55, 56, 57, 48, 0, 35>>,
       <<67, 65, 42, 66, 35, 0>> >>
\* row 941 Hz and column 1336 Hz of dtmf_row[] and dtmf_col[]
ROW_941 == 3
COL_1336 == 1
\* row 770 Hz
ROW_770 == 1

\* What the energies of one DTMF block amount to: the strongest row and
\* column, whether they pass the level, twist, relative peak and second
\* harmonic tests (clean), whether the 1100 Hz energy passes the fax level
\* test (fax) and whether it passes the fax second harmonic test (fax2nd).
DtmfBlock(row, col, clean, fax, fax2nd) ==
    [row |-> row, col |-> col, clean |-> clean, fax |-> fax, fax2nd |-> fax2nd]
DtmfBlocks ==
    {DtmfBlock(0, 0, FALSE, FALSE, FALSE),
     DtmfBlock(ROW_941, COL_1336, TRUE, FALSE, FALSE),
     DtmfBlock(ROW_770, COL_1336, TRUE, FALSE, FALSE),
     DtmfBlock(0, 0, FALSE, TRUE, TRUE),
     DtmfBlock(0, 0, FALSE, TRUE, FALSE)}
\* What the energies of one MF block amount to: the two strongest tones
\* (row, col) and whether they pass the relative peak and second harmonic
\* tests (clean).
MfBlocks ==
    {DtmfBlock(0, 1, FALSE, FALSE, FALSE),
     DtmfBlock(1, 3, TRUE, FALSE, FALSE),
     DtmfBlock(3, 4, TRUE, FALSE, FALSE)}

\* the samples of a frame: half a block, a block, two blocks
FrameLens(mode) ==
    IF mode = "MF" THEN {MF_GSIZE \div 2, MF_GSIZE, 2 * MF_GSIZE}
    ELSE {DTMF_GSIZE \div 2, DTMF_GSIZE, 2 * DTMF_GSIZE}
\* the max a caller hands to ast_dsp_getdigits
GetMax == {1, MAX_DTMF_DIGITS + 1}
\* blocks of fax tone a detector may have heard when the model starts to
\* watch it
FaxPrefill == 4

\* ---------------------------------------------------------------- state
\* dsp->td after ast_dsp_new: the struct is zeroed and ast_dtmf_detect_init
\* is run.  digits holds digits[0 .. current_digits - 1].
NewDetector ==
    [hit1 |-> 0, hit2 |-> 0, hit3 |-> 0, mhit |-> 0, current_sample |-> 0,
     digits |-> <<>>, detected_digits |-> 0, lost_digits |-> 0, fax_hits |-> 0]

\* ast_dtmf_detect_init / ast_mf_detect_init run on the union when the mode
\* changes: hit3 and the fax counter are not among the fields they set
DetectInit(s) ==
    [s EXCEPT !.hit1 = 0, !.hit2 = 0, !.current_sample = 0,
              !.detected_digits = 0, !.digits = <<>>, !.lost_digits = 0,
              !.mhit = 0]

\* no detector is run beside the detector
NoFresh == [on |-> FALSE, s |-> NewDetector]

\* the history of a detector that has analysed no block
NoBlock == [mode |-> "NONE"]
NoBlocks ==
    [last |-> NoBlock, prev_hit |-> 0,
     run_hit |-> 0, run_len |-> 0, run_app |-> 0, run_cnt |-> 0,
     gfax |-> 0, nblocks |-> 0, nops |-> 0,
     fresh |-> NoFresh, agree |-> TRUE]

\* ------------------------------------------------- dtmf_detect, mf_detect
\* mutant: the queue takes one digit more than it has room for
QueueHasRoom_OneMore(n, limit) == n <= limit

\* current_digits < MAX_DTMF_DIGITS (MF: MAX_DTMF_DIGITS - 2)
QueueHasRoom(n, limit) == n < limit

\* mutant: a hit that finds no room is dropped without being counted as lost
ConfirmHit_Dropped(s, hit, limit) ==
    [s EXCEPT !.mhit = hit,
              !.detected_digits = @ + 1,
              !.digits = IF QueueHasRoom(Len(s.digits), limit)
                         THEN Append(@, hit) ELSE @]

\* a confirmed hit is counted and queued, or counted and lost
ConfirmHit(s, hit, limit) ==
    [s EXCEPT !.mhit = hit,
              !.detected_digits = @ + 1,
              !.digits = IF QueueHasRoom(Len(s.digits), limit)
                         THEN Append(@, hit) ELSE @,
              !.lost_digits = IF QueueHasRoom(Len(s.digits), limit)
                              THEN @ ELSE @ + 1]

\* mutant: a hit is confirmed on its third block in a row
Debounced_ThreeBlocks(hit, h3, h2) == hit = h3 /\ h3 = h2

\* mutant: the hit is not compared with the hit of the block before
Debounced_NoRepeat(hit, h3, h2) == h3 # h2

\* "two successive identical clean detects, with something different
\* preceeding it"
Debounced(hit, h3, h2) == hit = h3 /\ h3 # h2

\* mutant: row and column are swapped in the lookup
DtmfDigit_Transposed(row, col) == dtmf_positions[(col * 4) + row + 1]

\* dtmf_positions[(best_row << 2) + best_col]
DtmfDigit(row, col) == dtmf_positions[(row * 4) + col + 1]

\* mutant: the fax event is declared at five
FaxConfirmed_AtFive(n) == n >= FAX_HITS_NEEDED

\* s->fax_hits > 5
FaxConfirmed(n) == n > FAX_HITS_NEEDED

\* the end of a DTMF block, lines 432-551: the new state and the block's hit
DtmfBlockEnd(s, b) ==
    LET hit0 == IF b.clean THEN DtmfDigit(b.row, b.col) ELSE 0
        s1 == IF b.clean /\ Debounced(hit0, s.hit3, s.hit2)
              THEN ConfirmHit(s, hit0, MAX_DTMF_DIGITS) ELSE s
        faxtest == hit0 = 0 /\ b.fax
        declared == ~faxtest /\ FaxConfirmed(s1.fax_hits)
        hit == IF (faxtest /\ b.fax2nd) \/ declared THEN FAX_HIT ELSE hit0
        s2 == IF faxtest
              THEN [s1 EXCEPT !.fax_hits = IF b.fax2nd THEN @ + 1 ELSE @]
              ELSE [(IF declared THEN ConfirmHit(s1, FAX_HIT, MAX_DTMF_DIGITS)
                     ELSE s1) EXCEPT !.fax_hits = 0]
    IN [s |-> [s2 EXCEPT !.hit1 = s.hit2, !.hit2 = s.hit3, !.hit3 = hit,
                         !.current_sample = 0],
        hit |-> hit]

\* the end of an MF block, lines 671-755
MfBlockEnd(s, b) ==
    LET hit == IF b.clean THEN mf_hit[b.row + 1][b.col + 1] ELSE 0
        s1 == IF b.clean /\ Debounced(hit, s.hit3, s.hit2)
              THEN ConfirmHit(s, hit, MAX_DTMF_DIGITS - 2) ELSE s
    IN [s |-> [s1 EXCEPT !.hit1 = s.hit2, !.hit2 = s.hit3, !.hit3 = hit,
                         !.current_sample = 0],
        hit |-> hit]

\* mutant: the DTMF detector ends its blocks where the MF detector does
GSize_MfForBoth(mode) == MF_GSIZE

\* the samples of a block: `102' at lines 323 and 420, MF_GSIZE at 586, 659
GSize(mode) == IF mode = "MF" THEN MF_GSIZE ELSE DTMF_GSIZE
BlockEnd(mode, s, b) == IF mode = "MF" THEN MfBlockEnd(s, b) ELSE DtmfBlockEnd(s, b)

\* what a block did, for the history: the block, the length of the queue
\* it met, its hit, the digits it queued, whether it left the digits queued
\* before alone, and what it counted as detected and as lost
BlockRecord(mode, s, b, r) ==
    [mode |-> mode, block |-> b, hit |-> r.hit, len0 |-> Len(s.digits),
     app |-> SubSeq(r.s.digits, Len(s.digits) + 1, Len(r.s.digits)),
     kept |-> SubSeq(r.s.digits, 1, Len(s.digits)) = s.digits,
     cnt |-> r.s.detected_digits - s.detected_digits,
     lost |-> r.s.lost_digits - s.lost_digits]

\* the loop over the samples of a call, lines 321-552 and 584-756: the frame
\* completes the blocks of bs in turn and leaves the rest in current_sample.
\* Yields the state, the hit of the last block completed in this call (0:
\* none) and the records of the blocks.
RECURSIVE DetectLoop(_, _, _, _, _, _)
DetectLoop(mode, s, hit, samples, bs, recs) ==
    IF samples = 0
    THEN [s |-> s, hit |-> hit, recs |-> recs]
    ELSE IF samples >= GSize(mode) - s.current_sample
    THEN LET r == BlockEnd(mode, s, Head(bs))
         IN DetectLoop(mode, r.s, r.hit,
                       samples - (GSize(mode) - s.current_sample), Tail(bs),
                       Append(recs, BlockRecord(mode, s, Head(bs), r)))
    ELSE [s |-> [s EXCEPT !.current_sample = @ + samples],
          hit |-> hit, recs |-> recs]

\* blocks a call of len samples completes
BlocksIn(mode, s, len) == (s.current_sample + len) \div GSize(mode)

\* ------------------------------------------------------------- history
\* how often c occurs in q
Occurrences(q, c) == Cardinality({i \in DOMAIN q : q[i] = c})

\* A block is entered in the history: the block (with the fax count of the
\* history before it) and the hit of the block before it, the run of blocks
\* with the same hit it belongs to (what the run has queued of that hit,
\* what it has counted), and the blocks that passed both fax tests since
\* the last block that failed the fax level test or was a hit.
Observe(dh, rec) ==
    LET same == dh.run_len > 0 /\ rec.hit = dh.run_hit
        dtmf == rec.mode = "DTMF"
        faxq == dtmf /\ ~rec.block.clean /\ rec.block.fax /\ rec.block.fax2nd
        faxend == dtmf /\ (rec.block.clean \/ ~rec.block.fax)
    IN [last |-> [gfax0 |-> dh.gfax] @@ rec,
        prev_hit |-> IF dh.last = NoBlock THEN 0 ELSE dh.last.hit,
        run_hit |-> rec.hit,
        run_len |-> IF same THEN dh.run_len + 1 ELSE 1,
        run_app |-> (IF same THEN dh.run_app ELSE 0) + Occurrences(rec.app, rec.hit),
        run_cnt |-> (IF same THEN dh.run_cnt ELSE 0) + rec.cnt,
        gfax |-> IF faxq THEN dh.gfax + 1 ELSE IF faxend THEN 0 ELSE dh.gfax,
        nblocks |-> dh.nblocks + 1,
        nops |-> dh.nops,
        fresh |-> dh.fresh,
        agree |-> dh.agree]

RECURSIVE ObserveAll(_, _)
ObserveAll(dh, recs) ==
    IF recs = <<>> THEN dh ELSE ObserveAll(Observe(dh, Head(recs)), Tail(recs))

\* A reset or a change of mode ends the run of blocks.  From a reset to
\* the next change of mode the history runs, beside the detector, a detector
\* as ast_dsp_new (and ast_dsp_digitmode, for MF) makes it, gives it the
\* frames and the calls of ast_dsp_getdigits the detector is given (fresh),
\* and notes whether the two have returned the same hits and hold the same
\* queue after every frame (agree).
EndRun(dh) == [dh EXCEPT !.run_hit = 0, !.run_len = 0, !.run_app = 0, !.run_cnt = 0]

NoDRet == [op |-> "none", val |-> 0, buf |-> <<>>]

\* ------------------------------------------------------ the operations
\* ast_dsp_new, and the queue the model starts with
DigitFresh ==
    /\ digitmode = "DTMF"
    /\ td = NewDetector
    /\ dret = NoDRet
    /\ dhist = NoBlocks

\* digits queued when the model starts to watch the detector: none, or one
\* short of a full queue (as many detections of '0' and a quiet stretch)
\* The states the model starts to watch a DTMF detector in: a new one, one
\* whose queue is one short of full, and a new one that has been given
\* FaxPrefill blocks of fax tone in one frame.
DigitStart ==
    /\ digitmode = "DTMF"
    /\ dret = NoDRet
    /\ \/ /\ \E n \in ({0, MAX_DTMF_DIGITS - 1}) :
                td = [NewDetector EXCEPT
                         !.digits = [i \in 1..n |-> DtmfDigit(ROW_941, COL_1336)],
                         !.detected_digits = n]
          /\ dhist = NoBlocks
       \/ LET r == DetectLoop("DTMF", NewDetector, 0, FaxPrefill * DTMF_GSIZE,
                              [i \in 1..FaxPrefill |->
                                  DtmfBlock(0, 0, FALSE, TRUE, TRUE)], <<>>)
          IN /\ td = r.s
             /\ dhist = [ObserveAll(NoBlocks, r.recs) EXCEPT !.nblocks = 0]

\* the return of dtmf_detect / mf_detect, lines 553-558 and 757-762, after
\* the loop has ended as r: the state and the value returned
DetectReturn(r) ==
    LET heard == r.s.mhit # 0 /\ r.s.mhit = r.hit
    IN [s |-> IF heard THEN r.s ELSE [r.s EXCEPT !.mhit = 0],
        val |-> IF heard THEN r.hit ELSE 0,
        recs |-> r.recs]

\* ast_dsp_digitdetect on a voice frame of len signed-linear samples whose
\* blocks measure as bs; lines 775-791, 765-773, and the return of
\* dtmf_detect / mf_detect, lines 553-558 and 757-762
DigitDetect(len, bs) ==
    /\ dhist.nblocks + Len(bs) <= MaxBlocks
    /\ LET r == DetectReturn(DetectLoop(digitmode, td, 0, len, bs, <<>>))
           f == DetectReturn(DetectLoop(digitmode, dhist.fresh.s, 0, len, bs, <<>>))
       IN /\ td' = r.s
          /\ dret' = [op |-> "digitdetect", val |-> r.val, buf |-> <<>>]
          /\ dhist' = [ObserveAll(dhist, r.recs) EXCEPT
                          !.fresh = IF @.on THEN [@ EXCEPT !.s = f.s] ELSE @,
                          !.agree = IF dhist.fresh.on
                                    THEN @ /\ f.val = r.val
                                           /\ f.s.digits = r.s.digits
                                    ELSE @]
    /\ UNCHANGED <<digitmode, chanvars, tonevars, procvars, parsevars, en>>

DigitDetectAny ==
    \E len \in FrameLens(digitmode) :
       \E bs \in [1..BlocksIn(digitmode, td, len) ->
                     IF digitmode = "MF" THEN MfBlocks ELSE DtmfBlocks] :
          DigitDetect(len, bs)

\* mutant: no digit is left
memmove_All(d, n) == SubSeq(d, 1, 0)

\* mutant: the digits left are not moved to the front
memmove_Missing(d, n) == SubSeq(d, 1, Len(d) - n)

\* memmove(digits, digits + max, current_digits - max)
memmove(d, n) == [i \in 1..(Len(d) - n) |-> d[i + n]]

\* ast_dsp_getdigits, lines 813-840 (both branches run the same statements
\* on the union)
GetDigits(max) ==
    /\ dhist.nops < MaxOps
    /\ LET k == IF max > Len(td.digits) THEN Len(td.digits) ELSE max
       IN /\ td' = IF k > 0 THEN [td EXCEPT !.digits = memmove(@, k)] ELSE td
          /\ dret' = [op |-> "getdigits", val |-> k,
                      buf |-> IF k > 0 THEN SubSeq(td.digits, 1, k) ELSE <<>>]
    /\ dhist' = [dhist EXCEPT
                    !.nops = @ + 1,
                    !.fresh = IF @.on /\ max > 0 /\ @.s.digits # <<>>
                              THEN [@ EXCEPT !.s.digits =
                                      memmove(@, IF max > Len(@) THEN Len(@) ELSE max)]
                              ELSE @]
    /\ UNCHANGED <<digitmode, chanvars, tonevars, procvars, parsevars, en>>

\* ast_dsp_digitreset, lines 1263-1294
DigitReset ==
    /\ dhist.nops < MaxOps
    /\ td' = [td EXCEPT !.digits = <<>>, !.current_sample = 0,
                        !.hit1 = 0, !.hit2 = 0, !.hit3 = 0, !.mhit = 0]
    /\ dret' = [op |-> "digitreset", val |-> 0, buf |-> <<>>]
    /\ dhist' = [EndRun(dhist) EXCEPT !.nops = @ + 1,
                                      !.fresh = [on |-> TRUE, s |-> NewDetector],
                                      !.agree = TRUE]
    /\ thinkdigit' = 0
    /\ UNCHANGED <<digitmode, chanvars, tonevars, features, sil, modebits,
                   pret, phist, parsevars, en>>

\* ast_dsp_digitmode, lines 1308-1322
DigitMode(m) ==
    /\ dhist.nops < MaxOps
    /\ digitmode' = m
    /\ td' = IF m # digitmode THEN DetectInit(td) ELSE td
    /\ dret' = [op |-> "digitmode", val |-> 0, buf |-> <<>>]
    /\ dhist' = [(IF m # digitmode
                  THEN [EndRun(dhist) EXCEPT !.fresh = NoFresh, !.agree = TRUE]
                  ELSE dhist)
                    EXCEPT !.nops = @ + 1]
    /\ UNCHANGED <<chanvars, tonevars, procvars, parsevars, en>>

DigitNext ==
    \/ DigitDetectAny
    \/ \E max \in GetMax : GetDigits(max)
    \/ DigitReset
    \/ \E m \in {"DTMF", "MF"} : DigitMode(m)

\* ======================================================================
\* The call-progress classifier of the DSP module (src/unnamed/part_003)
\* ======================================================================
GSAMP_SIZE == 183
COUNT_THRESH == 3
DSP_HISTORY == 5
TONE_STATE_SILENCE == 0
TONE_STATE_RINGING == 1
TONE_STATE_DIALTONE == 2
TONE_STATE_TALKING == 3
TONE_STATE_BUSY == 4
TONE_STATE_SPECIAL1 == 5
TONE_STATE_SPECIAL2 == 6
TONE_STATE_SPECIAL3 == 7

\* newstate is a local without an initialiser: what it holds when a call
\* begins is whatever the stack holds, a tone state or not (here: no tone
\* state, a state that is reported, and the three states of the special
\* information tones)
UninitInts ==
    {-1, TONE_STATE_BUSY, TONE_STATE_SPECIAL1, TONE_STATE_SPECIAL2,
     TONE_STATE_SPECIAL3}

\* the call-progress Goertzel filters freqs[HZ_350 .. HZ_1800]
NFREQS == 7
\* the filters ast_dsp_reset goes through
NRESET == 4
\* ast_dsp_new: the struct is zeroed, features is SILENCE_SUPPRESS.  An
\* accumulator (v2 and v3 of a filter, genergy) is held as the number of
\* samples put into it since it was last zeroed.
NewTone == [gsamps |-> 0, tstate |-> TONE_STATE_SILENCE, tcount |-> 0,
            call_progress |-> FALSE,
            freqs |-> Zeros(NFREQS), genergy |-> 0]
NoTRet == [op |-> "none", val |-> "NONE"]
NoToneBlock == [kind |-> "NONE"]
NoToneBlocks == [last |-> NoToneBlock, run_len |-> 0, nblocks |-> 0,
                 nresets |-> 0]

ToneFresh ==
    /\ tone = NewTone
    /\ tret = NoTRet
    /\ thist = NoToneBlocks

\* lines 885-902: newstate after the chain, given what it held before
NewState(kind, tstate, newstate) ==
    CASE kind = "BUSY" -> TONE_STATE_BUSY
      [] kind = "RINGING" -> TONE_STATE_RINGING
      [] kind = "DIALTONE" -> TONE_STATE_DIALTONE
      [] kind = "HZ_950" -> TONE_STATE_SPECIAL1
      [] kind = "HZ_1400" ->
            IF tstate = TONE_STATE_SPECIAL1 THEN TONE_STATE_SPECIAL2 ELSE newstate
      [] kind = "HZ_1800" ->
            IF tstate = TONE_STATE_SPECIAL2 THEN TONE_STATE_SPECIAL3 ELSE newstate
      [] kind = "TALKING" -> TONE_STATE_TALKING
      [] OTHER -> TONE_STATE_SILENCE

\* the chain assigns newstate
Assigns(kind, tstate) ==
    /\ kind = "HZ_1400" => tstate = TONE_STATE_SPECIAL1
    /\ kind = "HZ_1800" => tstate = TONE_STATE_SPECIAL2

\* lines 907-918: the event of a state confirmed, and whether it ends the
\* classifier's work
EventOf(tstate) ==
    CASE tstate = TONE_STATE_BUSY -> "BUSY"
      [] tstate = TONE_STATE_TALKING -> "ANSWER"
      [] tstate = TONE_STATE_RINGING -> "RINGING"
      [] tstate = TONE_STATE_SPECIAL3 -> "CONGESTION"
      [] OTHER -> "NONE"
Final(tstate) ==
    tstate \in {TONE_STATE_BUSY, TONE_STATE_TALKING, TONE_STATE_SPECIAL3}

\* dsp->tcount == COUNT_THRESH
\* the end of a block, lines 866-934: the new state, newstate and the event
ToneBlockEnd(t, kind, newstate) ==
    LET ns == NewState(kind, t.tstate, newstate)
        same == ns = t.tstate
        hit == same /\ t.tcount + 1 = COUNT_THRESH
    IN [t |-> [gsamps |-> 0,
               tstate |-> ns,
               tcount |-> IF same THEN t.tcount + 1 ELSE 1,
               call_progress |-> t.call_progress /\ ~(hit /\ Final(t.tstate)),
               freqs |-> Zeros(NFREQS),
               genergy |-> 0],
        newstate |-> ns,
        res |-> IF hit THEN EventOf(t.tstate) ELSE "NONE"]

\* what a block did, for the history: what it measured, whether newstate
\* was assigned before it was read, the state before and after, the event,
\* and the samples the filters and genergy held when it was classified
ToneRecord(t, kind, assigned, r) ==
    [kind |-> kind, assigned |-> assigned, tstate0 |-> t.tstate,
     tstate |-> r.t.tstate, res |-> r.res,
     freqs |-> t.freqs, genergy |-> t.genergy]

\* lines 853-865: pass samples are put into the filters and genergy
Accumulate(t, pass) ==
    [t EXCEPT !.gsamps = @ + pass,
              !.freqs = [x \in 1..NFREQS |-> @[x] + pass],
              !.genergy = @ + pass]

\* the loop of lines 848-935 over the samples of a call: the state, res
\* and the records of the blocks completed.  assigned: newstate has been
\* assigned in this call
RECURSIVE ProgressLoop(_, _, _, _, _, _, _)
ProgressLoop(t, newstate, assigned, res, len, bs, recs) ==
    IF len = 0
    THEN [t |-> t, res |-> res, recs |-> recs]
    ELSE LET pass == IF len > GSAMP_SIZE - t.gsamps
                     THEN GSAMP_SIZE - t.gsamps ELSE len
             t1 == Accumulate(t, pass)
         IN IF t1.gsamps = GSAMP_SIZE
            THEN LET r == ToneBlockEnd(t1, Head(bs), newstate)
                     a == assigned \/ Assigns(Head(bs), t.tstate)
                 IN ProgressLoop(r.t, r.newstate, a,
                                 IF r.res # "NONE" THEN r.res ELSE res,
                                 len - pass, Tail(bs),
                                 Append(recs, ToneRecord(t1, Head(bs), a, r)))
            ELSE ProgressLoop(t1, newstate, assigned, res, len - pass, bs, recs)

ToneBlocksIn(t, len) == (t.gsamps + len) \div GSAMP_SIZE

\* the blocks are entered in the history: the last block and the number of
\* blocks in a row, up to it, that measured as it did
RECURSIVE ObserveTones(_, _)
ObserveTones(th, recs) ==
    IF recs = <<>> THEN th
    ELSE ObserveTones(
            [last |-> Head(recs),
             run_len |-> IF th.last.kind = Head(recs).kind
                         THEN th.run_len + 1 ELSE 1,
             nblocks |-> th.nblocks + 1,
             nresets |-> th.nresets],
            Tail(recs))

\* ast_dsp_call_progress on a voice frame of len signed-linear samples whose
\* blocks measure as bs, newstate holding garbage when the call begins;
\* lines 943-954 and 842-941
CallProgress(len, bs, garbage) ==
    /\ thist.nblocks + Len(bs) <= MaxToneBlocks
    /\ LET r == ProgressLoop(tone, garbage, FALSE, "NONE", len, bs, <<>>)
       IN /\ tone' = r.t
          /\ tret' = [op |-> "call_progress", val |-> r.res]
          /\ thist' = ObserveTones(thist, r.recs)
    /\ UNCHANGED <<chanvars, digitvars, procvars, parsevars, en>>

\* the first block of the call reads newstate before anything assigned it
\* What the energies of a block amount to: the branch of the chain of lines
\* 885-902 they select.
\* the samples of a frame: a third of a block, a block, two blocks
CallProgressAny ==
    \E len \in ({GSAMP_SIZE \div 3, GSAMP_SIZE, 2 * GSAMP_SIZE}) :
       \E bs \in [1..ToneBlocksIn(tone, len) ->
                     {"BUSY", "RINGING", "DIALTONE", "HZ_950", "HZ_1400",
                      "HZ_1800", "TALKING", "SILENCE"}] :
          \E garbage \in (IF bs # <<>> /\ ~Assigns(bs[1], tone.tstate) THEN UninitInts
                          ELSE {TONE_STATE_SILENCE}) :
             CallProgress(len, bs, garbage)

\* lines 1301-1302: for (x=0;x<4;x++) freqs[x].v2 = freqs[x].v3 = 0.0
\* ast_dsp_reset, lines 1296-1306
Reset ==
    /\ thist.nresets < MaxResets
    /\ tone' = [tone EXCEPT !.gsamps = 0, 
                          !.freqs = [x \in 1..NFREQS |->
                                        IF x <= NRESET THEN 0 ELSE @[x]]]
    /\ sil' = [sil EXCEPT !.totalsilence = 0,
                          !.historicsilence = Zeros(DSP_HISTORY),
                          !.historicnoise = Zeros(DSP_HISTORY)]
    /\ tret' = [op |-> "reset", val |-> "NONE"]
    /\ thist' = [thist EXCEPT !.nresets = @ + 1]
    /\ phist' = [phist EXCEPT !.nnoise = 0, !.nsilence = 0]
    /\ UNCHANGED <<chanvars, digitvars, features, modebits, thinkdigit,
                   pret, parsevars, en>>

ProgressNext == CallProgressAny \/ Reset

\* ======================================================================
\* Silence and busy cadence of the DSP module (src/unnamed/part_003)
\* ======================================================================
DEFAULT_THRESHOLD == 1024
BUSY_THRESHOLD == 100
BUSY_MIN == 80
BUSY_MAX == 1100
\* where the search for the minimum starts
MIN_START == 9999
INT_MIN == (-2147483647) - 1
INT_MAX == 2147483647

\* a frame: its type and format, its samples (len), their mean absolute
\* amplitude (level) and what the samples hold (sig)
Frame(ft, sc, len, level, sig) ==
    [frametype |-> ft, subclass |-> sc, len |-> len, level |-> level,
     sig |-> sig]

\* dsp after ast_dsp_new: the struct is zeroed, busycount is 3
NewSilence ==
    [totalsilence |-> 0, totalnoise |-> 0, busymaybe |-> 0, busycount |-> 3,
     historicnoise |-> Zeros(DSP_HISTORY),
     historicsilence |-> Zeros(DSP_HISTORY)]

NoPRet == [op |-> "none", val |-> 0]
\* the history of a detector nothing has been called on: calls made, true
\* returns of ast_dsp_busydetect since busymaybe was last set, the history
\* slots (C indices) its last call read, what ast_dsp_set_busy_count has
\* been asked for, the terminal call-progress events ast_dsp_process has
\* queued since the features were last set, whether an 'm' has been
\* returned and no 'u' since (open), the digits forwarded to the channel
\* since the last 'm' (fwd), and how many calls of ast_dsp_process in a row,
\* up to the last one, had digit detection report a digit: counting every
\* call (reports), and counting the calls that ran digit detection (runs);
\* nidle counts the calls of ast_dsp_process that were given no voice frame
\* while a digit was held back, nnoise and nsilence the runs of noise and
\* of silence put into the histories since ast_dsp_new or ast_dsp_reset
NoCalls == [ncalls |-> 0, trues |-> 0, read |-> {}, asked |-> {},
            terminals |-> 0, open |-> FALSE, fwd |-> 0, reports |-> 0,
            runs |-> 0, nidle |-> 0, nnoise |-> 0, nsilence |-> 0]

ProcFresh ==
    /\ features = {"SILENCE_SUPPRESS"}
    /\ sil = NewSilence
    /\ modebits = {}
    /\ thinkdigit = 0
    /\ pret = NoPRet
    /\ phist = NoCalls

\* memmove(h, h + 1, ...); h[DSP_HISTORY - 1] = v
HistoryPush(h, v) == [i \in 1..DSP_HISTORY |-> IF i < DSP_HISTORY THEN h[i + 1] ELSE v]

\* __ast_dsp_silence, lines 956-989, on len samples of mean absolute
\* amplitude level: the new state and the value returned
SilenceStep(s, len, level) ==
    IF level < DEFAULT_THRESHOLD
    THEN [s |-> [s EXCEPT
                   !.totalsilence = @ + (len \div 8),
                   !.historicnoise =
                       IF s.totalnoise # 0 THEN HistoryPush(@, s.totalnoise) ELSE @,
                   !.busymaybe = IF s.totalnoise # 0 THEN 1 ELSE @,
                   !.totalnoise = 0],
          res |-> 1]
    ELSE [s |-> [s EXCEPT
                   !.totalnoise = @ + (len \div 8),
                   !.historicsilence =
                       IF s.totalsilence # 0 THEN HistoryPush(@, s.totalsilence) ELSE @,
                   !.busymaybe = IF s.totalsilence # 0 THEN 1 ELSE @,
                   !.totalsilence = 0],
          res |-> 0]

\* __ast_dsp_silence took s to s1: the runs it put into the histories
\* (lines 968-972 and 978-982: a run is recorded when its total is not 0,
\* and the total is cleared)
Recorded(s, s1) ==
    [noise |-> IF s.totalnoise # 0 /\ s1.totalnoise = 0 THEN 1 ELSE 0,
     silence |-> IF s.totalsilence # 0 /\ s1.totalsilence = 0 THEN 1 ELSE 0]

\* the call sets busymaybe
SetsBusyMaybe(s, len, level) ==
    IF level < DEFAULT_THRESHOLD THEN s.totalnoise # 0 ELSE s.totalsilence # 0

\* the calls made on the detector that the histories have counted
CallsMade == phist.ncalls - phist.nidle + dhist.nblocks + thist.nblocks
\* the frame taken whatever its format
IsSlinearVoice_AnyFormat(fr) == fr.frametype = "VOICE"
\* the frame is one the detectors take: voice, signed linear
IsSlinearVoice(fr) == fr.frametype = "VOICE" /\ fr.subclass = "SLINEAR"

\* ast_dsp_silence, lines 1029-1045 (totalsilence is handed back through
\* the pointer)
Silence(fr) ==
    /\ CallsMade < MaxCalls
    /\ IF IsSlinearVoice(fr)
       THEN LET r == SilenceStep(sil, fr.len, fr.level)
            IN /\ sil' = r.s
               /\ pret' = [op |-> "silence", val |-> r.res,
                           totalsilence |-> r.s.totalsilence]
               /\ phist' = [phist EXCEPT
                              !.ncalls = @ + 1,
                              !.trues = IF SetsBusyMaybe(sil, fr.len, fr.level)
                                        THEN 0 ELSE @,
                              !.nnoise = @ + Recorded(sil, r.s).noise,
                              !.nsilence = @ + Recorded(sil, r.s).silence]
       ELSE /\ sil' = sil
            /\ pret' = [op |-> "silence", val |-> 0]
            /\ phist' = [phist EXCEPT !.ncalls = @ + 1]
    /\ UNCHANGED <<chanvars, digitvars, tonevars, features, modebits,
                   thinkdigit, parsevars, en>>

\* the loop of lines 1001-1015 over the slots x = from .. DSP_HISTORY - 1
RECURSIVE MinMax(_, _, _, _)
MinMax(s, x, min, max) ==
    IF x >= DSP_HISTORY THEN [min |-> min, max |-> max]
    ELSE LET hs == s.historicsilence[x + 1]
             hn == s.historicnoise[x + 1]
             min1 == IF hs < min THEN hs ELSE min
             min2 == IF hn < min1 THEN hn ELSE min1
             max1 == IF hs > max THEN hs ELSE max
             max2 == IF hn > max1 THEN hn ELSE max1
         IN MinMax(s, x + 1, min2, max2)

\* mutant: no run is too short
BusyCadence_NoMin(min, max) ==
    (max - min < BUSY_THRESHOLD) /\ (max < BUSY_MAX)

\* mutant: the bound on the spread is not strict
BusyCadence_Lax(min, max) ==
    (max - min <= BUSY_THRESHOLD) /\ (max < BUSY_MAX) /\ (min > BUSY_MIN)

\* line 1016
BusyCadence(min, max) ==
    (max - min < BUSY_THRESHOLD) /\ (max < BUSY_MAX) /\ (min > BUSY_MIN)

\* mutant: the flag is left set
BusyMaybeAfter_Kept(b) == b

\* line 1000
BusyMaybeAfter(b) == 0

\* ast_dsp_busydetect, lines 991-1027: the new state, the value returned
\* and the slots read
BusyDetectStep(s) ==
    IF s.busymaybe # 0
    THEN LET m == MinMax(s, DSP_HISTORY - s.busycount, MIN_START, 0)
         IN [s |-> [s EXCEPT !.busymaybe = BusyMaybeAfter(@)],
             res |-> IF BusyCadence(m.min, m.max) THEN 1 ELSE 0,
             read |-> (DSP_HISTORY - s.busycount)..(DSP_HISTORY - 1)]
    ELSE [s |-> s, res |-> 0, read |-> {}]

BusyDetect ==
    /\ phist.ncalls < MaxCalls
    /\ LET r == BusyDetectStep(sil)
       IN /\ sil' = r.s
          /\ pret' = [op |-> "busydetect", val |-> r.res]
          /\ phist' = [phist EXCEPT !.ncalls = @ + 1,
                                    !.trues = @ + r.res,
                                    !.read = r.read]
    /\ UNCHANGED <<chanvars, digitvars, tonevars, features, modebits,
                   thinkdigit, parsevars, en>>

\* mutant: the lower bound is not enforced
Clamp_NoLower(cadences) ==
    IF cadences > DSP_HISTORY THEN DSP_HISTORY ELSE cadences

\* lines 1256-1259
Clamp(cadences) ==
    LET c == IF cadences < 1 THEN 1 ELSE cadences
    IN IF c > DSP_HISTORY THEN DSP_HISTORY ELSE c

\* ast_dsp_set_busy_count, lines 1254-1261
SetBusyCount(cadences) ==
    /\ phist.ncalls < MaxCalls
    /\ sil' = [sil EXCEPT !.busycount = Clamp(cadences)]
    /\ pret' = [op |-> "set_busy_count", val |-> cadences]
    /\ phist' = [phist EXCEPT !.ncalls = @ + 1, !.asked = @ \cup {cadences}]
    /\ UNCHANGED <<chanvars, digitvars, tonevars, features, modebits,
                   thinkdigit, parsevars, en>>

\* Durations (ms) the history of a detector that has been listening holds:
\* around BUSY_MIN, BUSY_MIN + BUSY_THRESHOLD and BUSY_MAX
\* The states the model starts to watch the busy detector in: a new one, and
\* one that has heard k noises and k silences alternate (two, or as many as
\* the histories hold) and has just heard the first 20 ms of a silence:
\* silences of a ms (the oldest of c ms), noises of b ms.
BusyStart ==
    /\ features = {"SILENCE_SUPPRESS"}
    /\ modebits = {}
    /\ thinkdigit = 0
    /\ pret = NoPRet
    /\ \/ sil = NewSilence /\ phist = NoCalls
       \/ \E a, b, c \in {BUSY_MIN, BUSY_MIN + 1, BUSY_MIN + BUSY_THRESHOLD,
                           BUSY_MIN + BUSY_THRESHOLD + 1,
                           BUSY_MAX - BUSY_THRESHOLD + 1, BUSY_MAX - 1,
                           BUSY_MAX} :
             \E k \in {2, DSP_HISTORY} :
                /\ sil = [NewSilence EXCEPT
                             !.historicsilence =
                                 [i \in 1..DSP_HISTORY |->
                                     IF i <= DSP_HISTORY - k THEN 0
                                     ELSE IF i = DSP_HISTORY - k + 1 THEN c
                                     ELSE a],
                             !.historicnoise =
                                 [i \in 1..DSP_HISTORY |->
                                     IF i <= DSP_HISTORY - k THEN 0 ELSE b],
                             !.busymaybe = 1,
                             !.totalsilence = 20]
                /\ phist = [NoCalls EXCEPT !.nnoise = k, !.nsilence = k]

\* the frames given to ast_dsp_silence: voice frames of half a millisecond,
\* 20 ms and 81 ms just under and at the threshold, and two frames it
\* does not take
\* what a caller hands to ast_dsp_set_busy_count
BusyNext ==
    \/ \E fr \in {Frame("VOICE", "SLINEAR", len, level, "NONE") :
                    len \in {4, 160, 8 * (BUSY_MIN + 1)},
                    level \in {DEFAULT_THRESHOLD - 1, DEFAULT_THRESHOLD}}
                \cup {Frame("OTHER", "SLINEAR", 160, DEFAULT_THRESHOLD, "NONE"),
                      Frame("VOICE", "ULAW", 160, DEFAULT_THRESHOLD, "NONE")} :
          Silence(fr)
    \/ BusyDetect
    \/ \E c \in ({INT_MIN, 0, 1, DSP_HISTORY, DSP_HISTORY + 1, INT_MAX}) : SetBusyCount(c)
    \/ Reset

\* ======================================================================
\* ast_dsp_process and the setters of the DSP module
\* ======================================================================
\* the characters 'm', 'u' and 'x' of the conference mute
MUTE_CHAR == 109
UNMUTE_CHAR == 117
THINK_CHAR == 120

\* what a call-progress block of a signal measures as (a digit: as energy
\* without a call-progress tone)
ToneOf(sig) == IF sig = "DIGIT" THEN "TALKING" ELSE sig
\* what a DTMF or MF block of a signal measures as: the digit '5', or
\* nothing
DigitOf(mode, sig) ==
    IF mode = "MF"
    THEN (IF sig = "DIGIT" THEN DtmfBlock(1, 3, TRUE, FALSE, FALSE)
          ELSE DtmfBlock(0, 1, FALSE, FALSE, FALSE))
    ELSE (IF sig = "DIGIT" THEN DtmfBlock(ROW_770, COL_1336, TRUE, FALSE, FALSE)
          ELSE DtmfBlock(0, 0, FALSE, FALSE, FALSE))
\* the signal of block i of n
SignalAt(fr, i, n) == IF i <= (n + 1) \div 2 THEN fr.sig[1] ELSE fr.sig[2]

\* af == NULL
NullAf == [null |-> TRUE]
\* a frame of one signal, loud unless it is silence
Plain(ft, sc, len, sig) ==
    Frame(ft, sc, len,
          IF sig = "SILENCE" THEN DEFAULT_THRESHOLD - 1 ELSE DEFAULT_THRESHOLD,
          <<sig, sig>>)
\* the frames the detectors do not take: one that is not voice, a voice
\* frame of a companded format and a voice frame of another format
OtherFrames ==
    {Plain("OTHER", "SLINEAR", GSAMP_SIZE, "DIGIT"),
     Plain("VOICE", "ULAW", GSAMP_SIZE, "DIGIT"),
     Plain("VOICE", "OTHER", GSAMP_SIZE, "DIGIT")}
\* the frames the detectors are given: a block of a digit, and the frames
\* they do not take
DetectorFrames ==
    {Plain("VOICE", "SLINEAR", GSAMP_SIZE, "DIGIT")} \cup OtherFrames
\* The frames ast_dsp_process is given: a call-progress block of silence
\* and of the 1800 Hz tone, two of a digit, three blocks of the tones that are
\* reported, six blocks that begin as busy tone and go on as ringing, the
\* frames the detectors do not take, and no frame.
\* the calls of ast_dsp_process: every frame with a channel, two without
ProcCalls ==
    {<<fr, TRUE>> : fr \in ({Plain("VOICE", "SLINEAR", GSAMP_SIZE, sig) : sig \in {"SILENCE", "HZ_1800"}} \cup {Plain("VOICE", "SLINEAR", 2 * GSAMP_SIZE, "DIGIT")} \cup {Plain("VOICE", "SLINEAR", COUNT_THRESH * GSAMP_SIZE, sig) : sig \in {"BUSY", "RINGING", "TALKING"}} \cup {Frame("VOICE", "SLINEAR", 2 * COUNT_THRESH * GSAMP_SIZE, DEFAULT_THRESHOLD, <<"BUSY", "RINGING">>)} \cup OtherFrames \cup {NullAf})}
    \cup {<<Plain("VOICE", "SLINEAR", 2 * GSAMP_SIZE, "DIGIT"), FALSE>>,
          <<Plain("VOICE", "SLINEAR", COUNT_THRESH * GSAMP_SIZE, "BUSY"), FALSE>>}

DspFrame(ft, sc) == [frametype |-> ft, subclass |-> sc]
\* dsp->f: not written yet, or the type and subclass it was given
\* dsp->f as the last call of ast_dsp_process left it
OldF == IF pret.op = "process" THEN pret.f ELSE ([frametype |-> "NONE", subclass |-> 0])

\* what dtmf_detect and mf_detect are given as digitmode, lines 769 and 771:
\* dsp->digitmode & DSP_DIGITMODE_RELAXDTMF
DetectMode(bits) == bits \cap {"RELAXDTMF"}

\* Lines 421-428 and 480-485 (MF: 660-667, 726-731): samples of the frame
\* are zeroed and *writeback is set at the end of a block that is a clean
\* hit, and for the samples after the last block end when the last block
\* of the call was a hit, unless the digitmode given has the NOQUELCH bit.
Quelches(dm, r) ==
    /\ "NOQUELCH" \notin dm
    /\ \/ \E i \in 1..Len(r.recs) : r.recs[i].block.clean
       \/ r.s.current_sample > 0 /\ r.hit # 0

\* what a call of ast_dsp_process gives back: the pointer returned (NULL,
\* af or &dsp->f), dsp->f, the frames queued on chan (af, or a copy of
\* dsp->f), writeback, whether samples of af were zeroed, the
\* call-progress event queued, and what digit detection returned (-1: it
\* was not run)
ProcOut(rv, f, queued, wb, ev, dg) ==
    [op |-> "process", val |-> rv, f |-> f, queued |-> queued,
     writeback |-> wb, zeroed |-> wb, event |-> ev, digit |-> dg]

\* lines 1198-1218: call progress, after digit detection left the detector
\* as d, thinkdigit as th and writeback as wb
ProgressPart(fr, chan, garbage, s, d, th, wb, dg) ==
    IF tone.call_progress
    THEN LET n == ToneBlocksIn(tone, fr.len)
             bs == [i \in 1..n |->
                       IF wb THEN "SILENCE" ELSE ToneOf(SignalAt(fr, i, n))]
             r == ProgressLoop(tone, garbage, FALSE, "NONE", fr.len, bs, <<>>)
             ev == IF chan THEN r.res ELSE "NONE"
         IN [sil |-> s, td |-> d, thinkdigit |-> th, tone |-> r.t,
             out |-> ProcOut("af", DspFrame("CONTROL", r.res),
                             IF ev # "NONE" THEN <<DspFrame("CONTROL", r.res)>>
                             ELSE <<>>,
                             wb, ev, dg)]
    ELSE [sil |-> s, td |-> d, thinkdigit |-> th, tone |-> tone,
          out |-> ProcOut("af", OldF, <<>>, wb, "NONE", dg)]

\* the bits of dsp->digitmode that ask for the conference mute
\* mutant: the frame is queued whatever thinkdigit holds
SendNow_Always(th, chan) ==
    IF chan THEN <<DspFrame("DTMF", th)>> ELSE <<>>

\* "If we found a digit, send it now", lines 1148-1154: the frame queued on
\* the channel before the 'u'
SendNow(th, chan) ==
    IF th # THINK_CHAR /\ chan THEN <<DspFrame("DTMF", th)>> ELSE <<>>

\* lines 1121-1197: digit detection and what becomes of the digit
DigitPart(fr, chan, garbage, s) ==
    IF "DTMF_DETECT" \in features
    THEN LET n == BlocksIn(digitmode, td, fr.len)
             bs == [i \in 1..n |-> DigitOf(digitmode, SignalAt(fr, i, n))]
             l == DetectLoop(digitmode, td, 0, fr.len, bs, <<>>)
             d == DetectReturn(l)
             wb == Quelches(DetectMode(modebits), l)
             af == IF chan THEN <<DspFrame("VOICE", fr.subclass)>> ELSE <<>>
             back(td1, th, f, queued) ==
                 [sil |-> s, td |-> td1, thinkdigit |-> th, tone |-> tone,
                  out |-> ProcOut("dspf", f, queued, wb, "NONE", d.val)]
         IN IF modebits \cap ({"MUTECONF", "MUTEMAX"}) # {}
            THEN IF thinkdigit = 0
                 THEN IF d.val # 0
                      THEN back(d.s, THINK_CHAR, DspFrame("DTMF", MUTE_CHAR), af)
                      ELSE ProgressPart(fr, chan, garbage, s, d.s, thinkdigit, wb,
                                        d.val)
                 ELSE IF d.val # 0
                      THEN ProgressPart(fr, chan, garbage, s, d.s, d.val, wb,
                                        d.val)
                      ELSE back(d.s, 0, DspFrame("DTMF", UNMUTE_CHAR),
                                SendNow(thinkdigit, chan) \o af)
            ELSE IF d.val = 0 /\ d.s.digits # <<>>
                 THEN back([d.s EXCEPT !.digits = memmove(@, 1)], thinkdigit,
                           DspFrame("DTMF", d.s.digits[1]), af)
                 ELSE ProgressPart(fr, chan, garbage, s, d.s, thinkdigit, wb,
                                   d.val)
    ELSE ProgressPart(fr, chan, garbage, s, td, thinkdigit, FALSE, -1)

\* the frame is one ast_dsp_process takes, lines 1075-1108
\* ast_dsp_process, lines 1047-1219: the detector after the call and what
\* the call gives back
ProcessStep(fr, chan, garbage) ==
    LET back(s, rv, f) ==
            [sil |-> s, td |-> td, thinkdigit |-> thinkdigit, tone |-> tone,
             out |-> ProcOut(rv, f, <<>>, FALSE, "NONE", -1)]
    IN IF fr = NullAf THEN back(sil, "NULL", OldF)
       ELSE IF \/ fr.frametype # "VOICE"
               \/ fr.subclass \notin {"SLINEAR", "ULAW", "ALAW"}
            THEN back(sil, "af", OldF)
       ELSE LET s1 == SilenceStep(sil, fr.len, fr.level)
                b == IF "BUSY_DETECT" \in features THEN BusyDetectStep(s1.s)
                     ELSE [s |-> s1.s, res |-> 0]
            IN IF "SILENCE_SUPPRESS" \in features /\ s1.res = 1
               THEN back(s1.s, "dspf", DspFrame("NULL", 0))
               ELSE IF b.res = 1
               THEN back(b.s, "dspf", DspFrame("CONTROL", "BUSY"))
               ELSE DigitPart(fr, chan, garbage, b.s)

\* the call returned &dsp->f holding the marker c ('m' or 'u')
Marker(out, c) == out.val = "dspf" /\ out.f = DspFrame("DTMF", c)
\* the digit frames the call queued on the channel before a 'u'
Forwarded(out) ==
    Cardinality({i \in DOMAIN out.queued :
                    /\ out.queued[i].frametype = "DTMF"
                    /\ Marker(out, UNMUTE_CHAR)})

\* a call of ast_dsp_process that hands its frame back at once (there is
\* none, or it is not voice) while a digit is held back
Idle(fr) == (fr = NullAf \/ fr.frametype # "VOICE") /\ thinkdigit # 0

\* a terminal call-progress event
Terminal(ev) == ev \in {"BUSY", "ANSWER", "CONGESTION"}

Process(fr, chan, garbage) ==
    /\ IF Idle(fr) THEN phist.nidle < MaxIdle ELSE CallsMade < MaxCalls
    /\ \E r \in {ProcessStep(fr, chan, garbage)} :
          /\ sil' = r.sil
          /\ td' = r.td
          /\ thinkdigit' = r.thinkdigit
          /\ tone' = r.tone
          /\ pret' = r.out
          /\ phist' = [phist EXCEPT
                         !.ncalls = @ + 1,
                         !.nidle = IF Idle(fr) THEN @ + 1 ELSE @,
                         !.nnoise = @ + Recorded(sil, r.sil).noise,
                         !.nsilence = @ + Recorded(sil, r.sil).silence,
                         !.terminals = IF Terminal(r.out.event) THEN @ + 1 ELSE @,
                         !.open = IF Marker(r.out, MUTE_CHAR) THEN TRUE
                                  ELSE IF Marker(r.out, UNMUTE_CHAR) THEN FALSE
                                  ELSE @,
                         !.fwd = (IF Marker(r.out, MUTE_CHAR) THEN 0 ELSE @)
                                 + Forwarded(r.out),
                         !.reports = IF r.out.digit <= 0 THEN 0
                                     ELSE @ + 1,
                         !.runs = IF r.out.digit < 0 THEN @
                                  ELSE IF r.out.digit = 0 THEN 0 ELSE @ + 1]
    \* the detector run beside the detector is not given the frame: the
    \* comparison with it ends here
    /\ dhist' = [dhist EXCEPT !.fresh = NoFresh]
    /\ UNCHANGED <<chanvars, digitmode, dret, tret, thist, features,
                   modebits, parsevars, en>>

\* newstate is read before it is assigned when call progress runs and the
\* first block of the frame does not assign it
ProcessAny ==
    \E c \in ProcCalls :
       \E garbage \in (IF /\ c[1] # NullAf
                          /\ tone.call_progress
                          /\ c[1].sig[1] = "HZ_1800"
                          /\ ToneBlocksIn(tone, c[1].len) > 0
                       THEN UninitInts ELSE {TONE_STATE_SILENCE}) :
          Process(c[1], c[2], garbage)

\* ast_dsp_set_features, lines 1244-1247
SetFeatures(F) ==
    /\ CallsMade < MaxCalls
    /\ features' = F \ {"CALL_PROGRESS"}
    /\ tone' = [tone EXCEPT !.call_progress = "CALL_PROGRESS" \in F]
    /\ pret' = [op |-> "set_features", val |-> 0]
    /\ phist' = [phist EXCEPT !.ncalls = @ + 1, !.terminals = 0]
    /\ UNCHANGED <<chanvars, digitvars, tret, thist, sil, modebits,
                   thinkdigit, parsevars, en>>

\* ast_dsp_digitdetect, lines 775-791, on a frame of any type
DigitDetectFrame(fr) ==
    IF IsSlinearVoice(fr)
    THEN LET n == BlocksIn(digitmode, td, fr.len)
         IN /\ CallsMade < MaxCalls
            /\ DigitDetect(fr.len,
                           [i \in 1..n |-> DigitOf(digitmode, SignalAt(fr, i, n))])
    ELSE /\ dret' = [op |-> "digitdetect", val |-> 0, buf |-> <<>>]
         /\ UNCHANGED <<digitmode, td, dhist, chanvars, tonevars, procvars,
                        parsevars, en>>

\* ast_dsp_call_progress, lines 943-954, on a frame of any type
CallProgressFrame(fr, garbage) ==
    IF IsSlinearVoice(fr)
    THEN LET n == ToneBlocksIn(tone, fr.len)
         IN /\ CallsMade < MaxCalls
            /\ CallProgress(fr.len, [i \in 1..n |-> ToneOf(SignalAt(fr, i, n))],
                            garbage)
    ELSE /\ tret' = [op |-> "call_progress", val |-> "NONE"]
         /\ UNCHANGED <<tone, thist, chanvars, digitvars, procvars, parsevars, en>>

\* the digit modes ast_dsp_digitmode has been given
\* dsp->features as ast_dsp_set_features is given it
\* what the callers of the model hand to ast_dsp_set_features and
\* ast_dsp_digitmode
\* The states the model starts to watch ast_dsp_process in: a new detector
\* whose features and digit mode have been set, and in the plain DTMF mode
\* also one that has a digit queued.
ProcStart ==
    /\ \E F \in {{"CALL_PROGRESS"}, {"DTMF_DETECT"},
                  {"DTMF_DETECT", "CALL_PROGRESS"},
                  {"SILENCE_SUPPRESS", "BUSY_DETECT", "DTMF_DETECT",
                   "CALL_PROGRESS"}} :
          /\ features = F \ {"CALL_PROGRESS"}
          /\ tone = [NewTone EXCEPT !.call_progress = "CALL_PROGRESS" \in F]
    /\ \E m \in {<<"DTMF", {}>>, <<"DTMF", {"NOQUELCH"}>>,
                  <<"DTMF", {"MUTECONF"}>>,
                  <<"MF", {"NOQUELCH", "RELAXDTMF"}>>} :
          /\ digitmode = m[1]
          /\ modebits = m[2]
          /\ \E n \in (IF m[2] = {} THEN {0, 1} ELSE {0}) :
                td = [NewDetector EXCEPT
                         !.digits = [i \in 1..n |-> DtmfDigit(ROW_941, COL_1336)],
                         !.detected_digits = n]
    /\ dret = NoDRet
    /\ dhist = NoBlocks
    /\ tret = NoTRet
    /\ thist = NoToneBlocks
    /\ sil = NewSilence
    /\ thinkdigit = 0
    /\ pret = NoPRet
    /\ phist = NoCalls

ProcessNext ==
    \/ ProcessAny
    \/ \E F \in {{}, {"CALL_PROGRESS"}} : SetFeatures(F)
    \/ \E fr \in DetectorFrames : Silence(fr)
    \/ \E fr \in DetectorFrames : DigitDetectFrame(fr)
    \/ \E fr \in DetectorFrames : CallProgressFrame(fr, TONE_STATE_SILENCE)
    \/ (thinkdigit # 0 \/ td.digits # <<>>) /\ dhist.nops = 0 /\ DigitReset

\* ======================================================================
\* parse_data of src/funcs/func_presencestate.c
\* ======================================================================
Str(s) == [null |-> FALSE, str |-> s]
\* the names of the presence states (the strings of test_valid_parse_data)
\* and a name that is none ("bored", of test_invalid_parse_data)
Away == <<"a", "w", "a", "y">>
PresenceNames ==
    {<<"n", "o", "t", "_", "s", "e", "t">>,
     <<"u", "n", "a", "v", "a", "i", "l", "a", "b", "l", "e">>,
     <<"a", "v", "a", "i", "l", "a", "b", "l", "e">>,
     Away,
     <<"x", "a">>,
     <<"c", "h", "a", "t">>,
     <<"d", "n", "d">>}
AST_PRESENCE_INVALID == "AST_PRESENCE_INVALID"

\* ast_presence_state_val: the state of a name, AST_PRESENCE_INVALID for a
\* string that is no name (the state is held as its name)
ast_presence_state_val(str) ==
    IF str \in PresenceNames THEN str ELSE AST_PRESENCE_INVALID

\* ast_strlen_zero
ast_strlen_zero(p) == p.null \/ p.str = <<>>

\* the places of c in s
Places(s, c) == {i \in 1..Len(s) : s[i] = c}

\* A char * is the null pointer or points to a string; a string is the
\* sequence of its characters.
\* strsep(&data, ","): the token returned and what data is left as
strsep(data) ==
    IF data.null THEN [tok |-> ([null |-> TRUE, str |-> <<>>]), data |-> ([null |-> TRUE, str |-> <<>>])]
    ELSE IF Places(data.str, ",") = {}
    THEN [tok |-> data, data |-> ([null |-> TRUE, str |-> <<>>])]
    ELSE LET i == CHOOSE k \in Places(data.str, ",") :
                     \A j \in Places(data.str, ",") : k <= j
         IN [tok |-> Str(SubSeq(data.str, 1, i - 1)),
             data |-> Str(SubSeq(data.str, i + 1, Len(data.str)))]

\* mutant: only the first character is looked at
strchr_First(str, c) == str # <<>> /\ str[1] = c

\* strchr(s, c) != NULL
strchr(str, c) == Places(str, c) # {}

\* what parse_data leaves in *state when it does not assign it
\* parse_data, lines 160-203: the value returned and the four outputs
parse_data(data) ==
    LET s1 == strsep(data)
        s2 == strsep(s1.data)
        s3 == strsep(s2.data)
        s4 == strsep(s3.data)
        state == ast_presence_state_val(s1.tok.str)
        out(r, st, subtype, message, options) ==
            [ret |-> r, state |-> st, subtype |-> subtype,
             message |-> message, options |-> options]
    IN IF ast_strlen_zero(s1.tok)
       THEN out(-1, ("unassigned"), (Str(<<>>)), (Str(<<>>)), (Str(<<>>)))
       ELSE IF state = AST_PRESENCE_INVALID
       THEN out(-1, state, (Str(<<>>)), (Str(<<>>)), (Str(<<>>)))
       ELSE IF s2.tok.null
       THEN out(0, state, (Str(<<>>)), (Str(<<>>)), (Str(<<>>)))
       ELSE IF s3.tok.null
       THEN out(0, state, s2.tok, (Str(<<>>)), (Str(<<>>)))
       ELSE IF s4.tok.null
       THEN out(0, state, s2.tok, s3.tok, (Str(<<>>)))
       ELSE IF ~ast_strlen_zero(s4.tok) /\ ~strchr(s4.tok.str, "e")
       THEN out(-1, state, s2.tok, s3.tok, s4.tok)
       ELSE out(0, state, s2.tok, s3.tok, s4.tok)

\* the strings of at most n characters of A
RECURSIVE StringsUpTo(_, _)
StringsUpTo(A, n) ==
    IF n = 0 THEN {<<>>}
    ELSE LET S == StringsUpTo(A, n - 1)
         IN S \cup {Append(t, c) : t \in S, c \in A}

ParseIdle == pd = ([op |-> "none"])
\* a call of parse_data on the string given
Parse ==
    /\ pd.op = "given"
    /\ pd' = [op |-> "parsed", data |-> pd.data] @@ parse_data(pd.data)
    /\ UNCHANGED <<chanvars, digitvars, tonevars, procvars, en>>

\* ======================================================================
\* The energy tests at the end of a block of the digit detector
\* (src/unnamed/part_003).  Energies are whole numbers of 1.0e5; the
\* factors of the tests are held in tenths and both sides of a test are
\* scaled alike.
\* ======================================================================
\* 8.0e7
DTMF_THRESHOLD == 800
\* 6.3, 2.5 and (DSP_DIGITMODE_RELAXDTMF) 4.0, in tenths
DTMF_NORMAL_TWIST == 63
DTMF_REVERSE_TWIST == 25
DTMF_REVERSE_TWIST_RELAXED == 40
DTMF_RELATIVE_PEAK_ROW == 63
DTMF_RELATIVE_PEAK_COL == 63
\* 5.3, in tenths
MF_RELATIVE_PEAK == 53

\* lines 440-448 (and 677-685): the index (from 0) of the strongest of the
\* energies e, the first of them when several are as strong; the loop is at
\* index i and the strongest so far is best
RECURSIVE Best(_, _, _)
Best(e, i, best) ==
    IF i >= Len(e) THEN best
    ELSE Best(e, i + 1, IF e[i + 1] > e[best + 1] THEN i ELSE best)

\* lines 687-699: "Find 2nd highest"; the loop is at index i, max and best2
\* are what it holds
RECURSIVE MfSecond(_, _, _, _, _)
MfSecond(e, best1, i, max, best2) ==
    IF i >= Len(e) THEN best2
    ELSE IF i = best1 THEN MfSecond(e, best1, i + 1, max, best2)
    ELSE IF e[i + 1] > max THEN MfSecond(e, best1, i + 1, e[i + 1], i)
    ELSE MfSecond(e, best1, i + 1, max, best2)

\* mutant: the two twist factors change places
DtmfLevelTwist_Swapped(row, col, relaxed) ==
    /\ row >= DTMF_THRESHOLD
    /\ col >= DTMF_THRESHOLD
    /\ col * 10 < row * DTMF_NORMAL_TWIST
    /\ col * (IF relaxed THEN DTMF_REVERSE_TWIST_RELAXED
              ELSE DTMF_REVERSE_TWIST) > row * 10

\* "Basic signal level test and the twist test", lines 450-457
DtmfLevelTwist(row, col, relaxed) ==
    /\ row >= DTMF_THRESHOLD
    /\ col >= DTMF_THRESHOLD
    /\ col * 10 < row * (IF relaxed THEN DTMF_REVERSE_TWIST_RELAXED
                         ELSE DTMF_REVERSE_TWIST)
    /\ col * DTMF_NORMAL_TWIST > row * 10

\* the hit of a DTMF block, lines 436-479, before the debounce: b holds the
\* energies of the rows and of the columns, whether the mode is relaxed and
\* whether the energy and second harmonic tests of lines 472-476 pass
DtmfEnergyHit(b) ==
    LET best_row == Best(b.rows, 1, 0)
        best_col == Best(b.cols, 1, 0)
        row == b.rows[best_row + 1]
        col == b.cols[best_col + 1]
        peaks == \A i \in 0..3 :
                    ~ \/ i # best_col /\ b.cols[i + 1] * DTMF_RELATIVE_PEAK_COL > col * 10
                      \/ i # best_row /\ b.rows[i + 1] * DTMF_RELATIVE_PEAK_ROW > row * 10
    IN [best1 |-> best_row, best2 |-> best_col,
        hit |-> IF DtmfLevelTwist(row, col, b.relaxed) /\ peaks /\ b.harm
                THEN DtmfDigit(best_row, best_col) ELSE 0]

\* the hit of an MF block, lines 671-725, before the debounce: b holds the
\* energies of the six tones and whether the second harmonic test of lines
\* 719-722 passes
MfEnergyHit(b) ==
    LET e == b.tones
        best1 == Best(e, 1, 0)
        best2 == MfSecond(e, best1, 0, IF best1 # 0 THEN e[1] ELSE e[2], 0)
        peaks == \A i \in 0..5 :
                    (i # best1 /\ i # best2) =>
                        /\ ~(e[best1 + 1] * 10 < e[i + 1] * MF_RELATIVE_PEAK)
                        /\ ~(e[best2 + 1] * 10 < e[i + 1] * MF_RELATIVE_PEAK)
    IN [best1 |-> best1, best2 |-> best2,
        hit |-> IF peaks /\ b.harm THEN mf_hit[best1 + 1][best2 + 1] ELSE 0]

\* the end of a DTMF block on the energies given
DtmfMeasure ==
    /\ en.kind = "DTMF"
    /\ ~en.done
    /\ en' = [en EXCEPT !.done = TRUE, !.out = DtmfEnergyHit(en)]
    /\ UNCHANGED <<chanvars, digitvars, tonevars, procvars, parsevars>>

\* the end of an MF block on the energies given
MfMeasure ==
    /\ en.kind = "MF"
    /\ ~en.done
    /\ en' = [en EXCEPT !.done = TRUE, !.out = MfEnergyHit(en)]
    /\ UNCHANGED <<chanvars, digitvars, tonevars, procvars, parsevars>>

EnergyNext == DtmfMeasure \/ MfMeasure

\* ---------------------------------------------------------------- spec
\* a channel before its first attach and a detector as ast_dsp_new makes it
Init == FramehookInit /\ DigitFresh /\ ToneFresh /\ ProcFresh /\ ParseIdle /\ en = [kind |-> "none"]

Next ==
    \/ \E i \in AttachInputs : Attach(i)
    \/ AttachReturn
    \/ \E id \in DetachIds : Detach(id)
    \/ \E ev \in {"READ", "WRITE"}, f \in Frames : PushBegin(ev, f)
    \/ PushStep
    \/ \E f \in Frames : PushCbReturn(f)
    \/ PushDetachedReturn
    \/ ListDestroy
    \/ DestroyStep
    \/ DestroyDetachedReturn

Spec == Init /\ [][Next]_vars

\* the dispatch with callbacks that attach hooks to the channel
ReentrantNext ==
    \/ Attach(GoodInput)
    \/ AttachReturn
    \/ \E id \in {1} : Detach(id)
    \/ PushBegin("READ", 1)
    \/ PushStep
    \/ \E f \in {1, 2} : PushCbReturn(f)
    \/ PushDetachedReturn
    \/ AttachInCallback(FALSE)
ReentrantSpec == Init /\ [][ReentrantNext]_vars

\* the digit detector on its own
DigitInit == FramehookInit /\ DigitStart /\ ToneFresh /\ ProcFresh /\ ParseIdle /\ en = [kind |-> "none"]
DigitSpec == DigitInit /\ [][DigitNext]_vars

\* the call-progress classifier on its own
ProgressSpec == Init /\ [][ProgressNext]_vars

\* ast_dsp_process and the functions that are given a frame
ProcessInit == FramehookInit /\ ProcStart /\ ParseIdle /\ en = [kind |-> "none"]
ProcessSpec == ProcessInit /\ [][ProcessNext]_vars

\* What parse_data is given: nothing, a name, the beginning of a name or no
\* name, followed by up to MaxTail characters of commas and option letters.
\* parse_data on its own
ParseInit ==
    /\ FramehookInit /\ DigitFresh /\ ToneFresh /\ ProcFresh
    /\ \E head \in {<<>>, Away, <<"d", "n", "d">>, <<"x", "a">>, <<"a", "w">>,
                    <<"b", "o", "r", "e", "d">>} :
       \E tail \in StringsUpTo({",", "e", "i"}, MaxTail) :
          pd = [op |-> "given", data |-> Str(head \o tail)]
    /\ en = [kind |-> "none"]
ParseSpec == ParseInit /\ [][(Parse)]_vars

\* silence and busy cadence on their own
BusyInit == FramehookInit /\ DigitFresh /\ ToneFresh /\ BusyStart /\ ParseIdle /\ en = [kind |-> "none"]
BusySpec == BusyInit /\ [][BusyNext]_vars

\* The energy tests on their own.  A DTMF block has one row and one column
\* that stand out (the first or the last of the four) over a common floor;
\* the peaks lie at the level threshold and at the bounds of the twist
\* test.  An MF block has each of its six tones at one of four levels.
EnergyInit ==
    /\ FramehookInit /\ DigitFresh /\ ToneFresh /\ ProcFresh /\ ParseIdle
    \* a block to measure
    /\ \/ \E br, bc \in {0, 3} :
          \E r, c \in {DTMF_THRESHOLD - 1, DTMF_THRESHOLD,
                       (DTMF_THRESHOLD * DTMF_REVERSE_TWIST) \div 10 - 1,
                       (DTMF_THRESHOLD * DTMF_REVERSE_TWIST) \div 10,
                       (DTMF_THRESHOLD * DTMF_REVERSE_TWIST_RELAXED) \div 10 - 1,
                       (DTMF_THRESHOLD * DTMF_REVERSE_TWIST_RELAXED) \div 10,
                       DTMF_THRESHOLD * 5,
                       (DTMF_THRESHOLD * DTMF_NORMAL_TWIST) \div 10 - 1,
                       (DTMF_THRESHOLD * DTMF_NORMAL_TWIST) \div 10} :
          \E fr, fc \in {0, DTMF_THRESHOLD} :
          \E relaxed, harm \in BOOLEAN :
             en = [kind |-> "DTMF", done |-> FALSE,
                   rows |-> [i \in 1..4 |-> IF i = br + 1 THEN r ELSE fr],
                   cols |-> [i \in 1..4 |-> IF i = bc + 1 THEN c ELSE fc],
                   relaxed |-> relaxed, harm |-> harm,
                   out |-> [best1 |-> 0, best2 |-> 0, hit |-> 0]]
       \/ \E tones \in [1..6 -> {0, DTMF_THRESHOLD, 6 * DTMF_THRESHOLD,
                                 36 * DTMF_THRESHOLD}] :
          \E harm \in BOOLEAN :
             en = [kind |-> "MF", done |-> FALSE, tones |-> tones,
                   harm |-> harm,
                   out |-> [best1 |-> 0, best2 |-> 0, hit |-> 0]]
EnergySpec == EnergyInit /\ [][EnergyNext]_vars

\* The dispatch is a loop of the channel's thread: it goes on for as long as
\* it has a step to take, and the callbacks it invokes return.
FairSpec ==
    /\ Spec
    /\ WF_vars(PushStep)
    /\ WF_vars(\E f \in Frames : PushCbReturn(f))
    /\ WF_vars(PushDetachedReturn)

\* ------------------------------------------------------------ properties
PushPcs == {"push_loop", "push_cb", "push_detached_cb"}

\* a dispatch over an existing list has just returned
DispatchDone == pc = "idle" /\ ret.op = "push"

Hooks == 1..Len(hk)

\* a trace entry whose callback returned a frame other than the one it got
Substituted(e) == e.done /\ e.fout # e.fin

\* the position of hook uid in the list as it was when the dispatch began
Pos0(uid) == CHOOSE k \in 1..Len(list0) : list0[k].uid = uid

\* C1: a hook gets DETACHED at most once, whatever is called and from
\* where; a hook that was marked for detach when a dispatch began has got it
\* exactly once when that dispatch returns, and every hook ever attached has
\* got it exactly once when the channel has no list (any more).
C1_DetachedOnce ==
    /\ \A u \in Hooks : hk[u].detached <= 1
    /\ DispatchDone =>
          \A k \in 1..Len(list0) :
             list0[k].detach_and_destroy_me => hk[list0[k].uid].detached = 1
    /\ ~fh_exists => \A u \in Hooks : hk[u].detached = 1

\* a hook that was marked when the second dispatch began has got its one
\* DETACHED when that dispatch returns
C1_Witness ==
    /\ DispatchDone
    /\ npush = 2
    /\ \E k \in 1..Len(list0) :
          /\ list0[k].detach_and_destroy_me
          /\ hk[list0[k].uid].detached = 1

\* C2: a step of ast_framehook_detach, at top level or inside a callback,
\* changes at most the detach flag of the hook with that id (setting it):
\* the list keeps its hooks in their order, no hook's callback or destroy
\* callback is invoked, the thread stays where it is and a dispatch in
\* progress keeps its traversal state.
C2_DetachOnlyFlags ==
    [][\A id \in DetachIds :
          Detach(id) =>
             /\ Len(list') = Len(list)
             /\ \A k \in 1..Len(list) :
                   /\ list'[k].uid = list[k].uid
                   /\ list'[k].id = list[k].id
                   /\ list'[k].destroy_cb = list[k].destroy_cb
                   /\ list[k].detach_and_destroy_me => list'[k].detach_and_destroy_me
                   /\ list'[k].detach_and_destroy_me # list[k].detach_and_destroy_me
                         => list[k].id = id
             /\ Len(hk') = Len(hk)
             /\ \A u \in Hooks :
                   /\ hk'[u].first = hk[u].first
                   /\ hk'[u].attached = hk[u].attached
                   /\ hk'[u].detached = hk[u].detached
                   /\ hk'[u].destroyed = hk[u].destroyed
             /\ Len(trace') <= Len(trace)
             /\ pc' = pc
             /\ cur' = cur
             /\ <<fh_exists, count, id_count>>' = <<fh_exists, count, id_count>>
             /\ pc \in PushPcs => <<pushvars, trace>>' = <<pushvars, trace>>
      ]_vars

\* a hook's READ/WRITE callback is running and the hook is marked: it called
\* detach on its own id from inside its callback
C2_Witness ==
    /\ pc = "push_cb"
    /\ list[pos].uid = cur.uid
    /\ list[pos].detach_and_destroy_me
    /\ Len(list) = 3

\* C3: no hook gets a READ or WRITE after a detach has found it; the hooks
\* marked when a dispatch begins are not among those the dispatch invokes.
C3_NoFrameAfterDetach ==
    /\ \A u \in Hooks : ~hk[u].rw_late
    /\ \A i \in 1..Len(trace) :
          ~list0[Pos0(trace[i].uid)].detach_and_destroy_me

\* hooks 1 and 2 attached to an empty list, hook 1 detached, one frame
\* dispatched: hook 2 alone was invoked
C3_Witness ==
    /\ DispatchDone
    /\ Len(hk) = 2
    /\ Len(list0) = 2
    /\ list0[1].detach_and_destroy_me
    /\ ~list0[2].detach_and_destroy_me
    /\ hk[1].detached = 1
    /\ Len(trace) = 1
    /\ trace[1].uid = 2

\* C4: within a pass the hooks are invoked in attach order and with the
\* frame unchanged; a pass ends early exactly at a substitution and the next
\* pass starts with the substituted frame.  With three hooks A, B, C none of
\* which is marked, and B the only one to return a different frame, the
\* callbacks are A(old), B(old), A(new), C(new) and the dispatch returns new.
C4_InsertionOrder ==
    /\ \A i \in 1..(Len(trace) - 1) :
          LET a == trace[i]
              b == trace[i + 1]
          IN  IF a.pass = b.pass
              THEN /\ Pos0(a.uid) < Pos0(b.uid)
                   /\ a.fout = a.fin
                   /\ b.fin = a.fin
              ELSE /\ b.pass = a.pass + 1
                   /\ Substituted(a)
                   /\ b.fin = a.fout
    /\ (/\ DispatchDone
        /\ Len(list0) = 3
        /\ list = list0
        /\ \A k \in 1..3 : ~list[k].detach_and_destroy_me
        /\ \A i \in 1..Len(trace) :
              Substituted(trace[i]) <=> trace[i].uid = list0[2].uid)
       => /\ Len(trace) = 4
          /\ [i \in 1..4 |-> trace[i].uid]
                = <<list0[1].uid, list0[2].uid, list0[1].uid, list0[3].uid>>
          /\ trace[2].fin = trace[1].fin
          /\ trace[3].fin = trace[2].fout
          /\ trace[4].fin = trace[2].fout
          /\ ret.val = trace[2].fout

\* the dispatch over A, B, C in which B alone substituted has returned
C4_Witness ==
    /\ DispatchDone
    /\ Len(list0) = 3
    /\ list = list0
    /\ \A k \in 1..3 : ~list[k].detach_and_destroy_me
    /\ Len(trace) = 4
    /\ \A i \in 1..Len(trace) :
          Substituted(trace[i]) <=> trace[i].uid = list0[2].uid
    /\ trace[1].fin = 1
    /\ ret.val = 2

\* C5: in one dispatch a hook that has returned a substituted frame is not
\* invoked again.
C5_NoReinvoke ==
    \A i \in 1..Len(trace) : \A j \in (i + 1)..Len(trace) :
       (trace[i].uid = trace[j].uid) => ~Substituted(trace[i])

\* C6: when the dispatch returns, every substitution has been followed by an
\* invocation, with the substituted frame, of every other hook that is in
\* the list and not marked.
C6_OthersSeeSubstitute ==
    DispatchDone =>
       \A i \in 1..Len(trace) :
          Substituted(trace[i]) =>
             \A k \in 1..Len(list) :
                (~list[k].detach_and_destroy_me /\ list[k].uid # trace[i].uid)
                   => \E j \in (i + 1)..Len(trace) :
                         /\ trace[j].uid = list[k].uid
                         /\ trace[j].fin = trace[i].fout

\* the substitutions the dispatch has seen so far
Substitutions == {i \in 1..Len(trace) : Substituted(trace[i])}

\* A dispatch is in pass 1 + the number of substitutions so far (a pass
\* restarts only after a substitution), the passes are at most the hooks in
\* the list when it began plus one, and when it has returned its last pass
\* has no substitution.
C7_PassBound ==
    /\ pc \in PushPcs \/ (DispatchDone /\ passes > 0) =>
          /\ passes = 1 + Cardinality(Substitutions)
          /\ passes <= Len(list0) + 1
    /\ DispatchDone =>
          \A i \in 1..Len(trace) :
             trace[i].pass = passes => ~Substituted(trace[i])

Returned == {u \in Hooks : hk[u].rid # 0}

\* C8 as claimed: every id attach has returned is positive, and no two
\* attaches on the channel have returned the same id.
C8_IdsNeverReused ==
    /\ \A u \in Returned : hk[u].rid > 0
    /\ \A u, v \in Returned : u # v => hk[u].rid # hk[v].rid

\* C8 as amended: every id attach has returned is positive, and no two
\* attaches to the same list (no teardown of the list between them) have
\* returned the same id, also after hooks of that list were destroyed.
C8_IdsUniquePerList ==
    /\ \A u \in Returned : hk[u].rid > 0
    /\ \A u, v \in Returned :
          (u # v /\ hk[u].epoch = hk[v].epoch) => hk[u].rid # hk[v].rid

\* attach has returned id 3 for the third hook of a list whose first hook
\* a dispatch had destroyed before
C8_Witness ==
    /\ pc = "idle"
    /\ ret = [op |-> "attach", val |-> 3]
    /\ Len(hk) = 3
    /\ hk[1].detached = 1
    /\ hk[3].epoch = hk[1].epoch
    /\ Len(list) = 2
    /\ npush >= 1

\* an input ast_framehook_attach has to refuse
BadInput(i) ==
    \/ i.version # AST_FRAMEHOOK_INTERFACE_VERSION
    \/ ~i.event_cb
    \/ ~i.alloc_hook
    \/ (~fh_exists /\ ~i.alloc_list)

\* C9: a call of ast_framehook_attach with a version other than
\* AST_FRAMEHOOK_INTERFACE_VERSION, with no event callback, or in which an
\* allocation fails returns -1 at once, invokes no callback and leaves the
\* list (none stays none), its count and its id counter as they were.
C9_AttachRejects ==
    [][\A i \in AttachInputs :
          (BadInput(i) /\ Attach(i)) =>
             /\ ret' = [op |-> "attach", val |-> -1]
             /\ pc' = "idle"
             /\ <<fh_exists, count, id_count, list, cur, hk>>'
                   = <<fh_exists, count, id_count, list, cur, hk>>
      ]_vars

\* a refused attach has returned -1 and the channel still has no list
C9_Witness ==
    /\ pc = "idle"
    /\ ret = [op |-> "attach", val |-> -1]
    /\ ~fh_exists
    /\ hk = <<>>

\* C10: every hook has got exactly one ATTACHED, as its first event, by the
\* time attach returns (indeed as soon as it is in the list); the step of
\* attach that links the hook in appends it at the tail and tells no other
\* hook anything, and the return of attach hands out the new hook's id and
\* tells no hook anything.
C10_AttachedFirst ==
    /\ [](\A u \in Hooks : hk[u].first = "ATTACHED" /\ hk[u].attached = 1)
    /\ [][(pc = "idle" /\ pc' = "attach_cb") =>
             /\ list' = Append(list, cur')
             /\ cur'.uid = Len(hk')
             /\ Len(hk') = Len(hk) + 1
             /\ \A u \in Hooks : hk'[u] = hk[u]
             /\ trace' = <<>>
         ]_vars
    /\ [][(pc = "attach_cb" /\ pc' = "idle") =>
             /\ ret' = [op |-> "attach", val |-> cur.id]
             /\ list' = list
             /\ Len(hk') = Len(hk)
             /\ \A u \in Hooks : [hk'[u] EXCEPT !.rid = 0] = [hk[u] EXCEPT !.rid = 0]
             /\ trace' = trace
         ]_vars

\* attach has returned the id of a second hook, now the tail of the list
C10_Witness ==
    /\ pc = "idle"
    /\ ret = [op |-> "attach", val |-> 2]
    /\ Len(list) = 2
    /\ list[2].id = 2
    /\ hk[list[2].uid].first = "ATTACHED"
    /\ hk[list[2].uid].attached = 1

\* ------------------------------------------------------------------ C11
\* C11: after every operation the list's count field equals the number of
\* hooks in the list (after attaching two hooks, detaching one and
\* dispatching one frame, the count is 1).
C11_CountIsLength ==
    (pc = "idle" /\ fh_exists) => count = Len(list)

\* ------------------------------------------------------------------ C12
\* a step of ast_framehook_list_destroy that takes a hook off the list and
\* invokes its event callback
DestroyTakes == pc = "destroy_loop" /\ pc' = "destroy_detached_cb"

\* the hooks other than u have been told nothing by this step
OthersUntold(u) == \A v \in Hooks \ {u} : hk'[v] = hk[v]

\* C12: ast_framehook_list_destroy delivers DETACHED and then, when one was
\* supplied, the destroy callback, exactly once to every hook still in the
\* list, flagged or not, in insertion order, and nothing to the hooks
\* already destroyed; it leaves the channel with no list, the list then
\* reports empty and a later dispatch returns its frame unchanged.
C12_ListDestroy ==
    /\ [][DestroyTakes =>
             /\ cur' = Head(list)
             /\ \A k \in 2..Len(list) : list[k].uid > cur'.uid
             /\ list' = Tail(list)
             /\ hk[cur'.uid].detached = 0 /\ hk[cur'.uid].destroyed = 0
             /\ hk'[cur'.uid].detached = 1 /\ hk'[cur'.uid].destroyed = 0
             /\ OthersUntold(cur'.uid)]_vars
    /\ [][(pc = "destroy_detached_cb" /\ pc' = "destroy_loop") =>
             /\ hk'[cur.uid].detached = 1
             /\ hk'[cur.uid].destroyed = (IF cur.destroy_cb THEN 1 ELSE 0)
             /\ OthersUntold(cur.uid)]_vars
    /\ [][(pc = "destroy_loop" /\ pc' = "idle") =>
             /\ list = <<>>
             /\ ~fh_exists'
             /\ ast_framehook_list_is_empty' = 1
             /\ hk' = hk
             /\ \A u \in Hooks : hk[u].detached = 1 /\ hk[u].destroyed <= 1]_vars
    /\ [][(pc = "idle" /\ ~fh_exists /\ npush' = npush + 1) =>
             /\ pc' = "idle"
             /\ ret' = [op |-> "push", val |-> frame']
             /\ hk' = hk]_vars

\* three hooks, one of them destroyed by a dispatch and one with a destroy
\* callback, have all been told DETACHED once, the list is gone, and a later
\* dispatch has returned the frame it was given
C12_Witness ==
    /\ pc = "idle" /\ ret.op = "push" /\ ret.val = original_frame
    /\ ~fh_exists /\ ndestroy = 1 /\ npush = 2
    /\ Len(hk) = 3
    /\ \A u \in Hooks : hk[u].detached = 1
    /\ \E u \in Hooks : hk[u].destroyed = 1
    /\ \E u \in Hooks : hk[u].destroyed = 0


\* ======================================================================
\* The digit detector: C13 - C18 (DigitSpec)
\* ======================================================================
\* the last block the detector analysed, if it was a DTMF block
LastDtmf == dhist.last # NoBlock /\ dhist.last.mode = "DTMF"
\* the last block the detector analysed was a block of either mode
LastAny == dhist.last # NoBlock
\* the last block declared a fax event: its hit is 'f' and it counted it
FaxDeclared ==
    LastDtmf /\ dhist.last.hit = FAX_HIT /\ dhist.last.cnt >= 1
\* the last block counted a digit of the position tables as detected: it
\* passed the tests and counted something besides a fax event
DigitCounted ==
    /\ LastAny
    /\ dhist.last.block.clean
    /\ dhist.last.cnt > (IF FaxDeclared THEN 1 ELSE 0)
\* the digit of the position tables the last block classified as
Classified ==
    IF dhist.last.mode = "MF"
    THEN mf_hit[dhist.last.block.row + 1][dhist.last.block.col + 1]
    ELSE DtmfDigit(dhist.last.block.row, dhist.last.block.col)
\* the digits of the position tables the last block queued
TableDigits == SelectSeq(dhist.last.app, LAMBDA c : c # FAX_HIT)

\* ------------------------------------------------------------------ C13
\* C13: in DTMF mode the digit queue never holds more than 128 digits after
\* any sequence of detection, drain and reset operations: a confirmed digit
\* is appended at the tail while fewer than 128 are queued, and otherwise it
\* is dropped, lost_digits is incremented by one and the queued digits are
\* unchanged.
C13_QueueBounded ==
    /\ digitmode = "DTMF" => Len(td.digits) <= MAX_DTMF_DIGITS
    /\ LastDtmf =>
          LET r == dhist.last
          IN /\ r.kept
             /\ Len(r.app) + r.lost = r.cnt
             /\ r.lost > 0 => r.len0 + Len(r.app) = MAX_DTMF_DIGITS
             /\ (DigitCounted /\ r.len0 < MAX_DTMF_DIGITS) =>
                    (r.app # <<>> /\ r.app[1] = Classified)
             /\ (r.cnt = 1 /\ r.len0 >= MAX_DTMF_DIGITS) =>
                    (r.app = <<>> /\ r.lost = 1)

\* a digit was confirmed while 128 were queued: the queue still holds 128
\* and the digit is counted as lost
C13_Witness ==
    /\ LastDtmf /\ digitmode = "DTMF"
    /\ dhist.last.cnt = 1 /\ dhist.last.len0 = MAX_DTMF_DIGITS
    /\ Len(td.digits) = MAX_DTMF_DIGITS
    /\ td.lost_digits = 1

\* ------------------------------------------------------------------ C14
\* C14: ast_dsp_getdigits(max) returns k = min(max, number of digits queued)
\* digits, these are the k oldest queued digits in detection order, the
\* remaining digits stay queued in the same order, and draining again after
\* a full drain returns 0 digits.
C14_GetDigits ==
    [][\A max \in GetMax : GetDigits(max) =>
          LET n == Len(td.digits)
              k == IF max < n THEN max ELSE n
          IN /\ dret'.val = k
             /\ dret'.buf = SubSeq(td.digits, 1, k)
             /\ td'.digits = SubSeq(td.digits, k + 1, n)
             /\ (n = 0 => dret'.val = 0)
             /\ td' = [td EXCEPT !.digits = td'.digits]]_vars

\* '0' and then '5' were queued, and getdigits(1) has returned the '0' and
\* left the '5'
C14_Witness ==
    /\ dret.op = "getdigits" /\ dret.val = 1
    /\ dret.buf = <<DtmfDigit(ROW_941, COL_1336)>>
    /\ td.digits = <<DtmfDigit(ROW_770, COL_1336)>>

\* ------------------------------------------------------------------ C15
\* C15: for a fresh DTMF detector, a run of three or more consecutive
\* blocks that all classify as the same digit, preceded by a block with a
\* different hit or no hit, appends that digit to the queue exactly once and
\* increments detected_digits exactly once, however long the run lasts.
C15_RunQueuesOnce ==
    (/\ LastDtmf
     /\ dhist.run_len >= 3
     /\ dhist.run_hit \notin {0, FAX_HIT}
     /\ td.lost_digits = 0)
    => (dhist.run_app = 1 /\ dhist.run_cnt = 1)

\* four blocks of '5' in a row on a new detector have queued one '5'
C15_Witness ==
    /\ LastDtmf /\ dhist.run_len = 4
    /\ dhist.run_hit = DtmfDigit(ROW_770, COL_1336)
    /\ dhist.run_app = 1 /\ dhist.run_cnt = 1
    /\ td.digits = <<DtmfDigit(ROW_770, COL_1336)>>
    /\ td.detected_digits = 1

ConfirmedAt(row, col) ==
    /\ LastDtmf
    /\ DigitCounted
    /\ dhist.last.block.row = row /\ dhist.last.block.col = col
    /\ dhist.last.len0 < MAX_DTMF_DIGITS

\* C17: a confirmed DTMF detection whose strongest row filter is 941 Hz and
\* whose strongest column filter is 1336 Hz puts exactly one digit in the
\* queue and that digit is '5' (character 53).
C17_Row941Col1336Is5 ==
    ConfirmedAt(ROW_941, COL_1336) => TableDigits = <<53>>

\* C17 as amended: that detection puts exactly one digit in the queue and
\* the digit is '0' (character 48), the entry of row 941 Hz and column
\* 1336 Hz of the position table; '5' is the entry of row 770 Hz and column
\* 1336 Hz.
C17_Row941Col1336Is0 ==
    /\ ConfirmedAt(ROW_941, COL_1336) => TableDigits = <<48>>
    /\ ConfirmedAt(ROW_770, COL_1336) => TableDigits = <<53>>

\* two blocks of 941 Hz + 1336 Hz on a new detector: the queue holds '0'
C17_Witness ==
    /\ ConfirmedAt(ROW_941, COL_1336)
    /\ td.digits = <<48>>
    /\ dhist.nblocks = 2

\* ------------------------------------------------------------------ C18
\* the last block passed both fax tests
FaxQualified ==
    LastDtmf /\ ~dhist.last.block.clean
             /\ dhist.last.block.fax /\ dhist.last.block.fax2nd
\* the last block failed the fax level test or was a DTMF hit
FaxEnded ==
    LastDtmf /\ (dhist.last.block.clean \/ ~dhist.last.block.fax)
\* the fax events the last block queued
FaxQueued == Occurrences(dhist.last.app, FAX_HIT)

\* C18: the DTMF detector declares a fax event (queues 'f' and counts it as
\* detected) once 5 consecutive blocks have qualified as fax tone.
C18_FaxAtFive ==
    (FaxQualified /\ dhist.gfax = 5) =>
        (FaxDeclared /\ FaxQueued = 1)

\* C18 as amended: the detector declares a fax event at the first block
\* that fails the fax level test or is a DTMF hit after more than 5 blocks
\* have qualified as fax tone since the last such block, and at no other
\* block; a block that passes the level test and fails the second harmonic
\* test neither counts nor resets the count.
C18_FaxAfterMoreThanFive ==
    /\ td.fax_hits = dhist.gfax
    /\ FaxDeclared <=> (FaxEnded /\ dhist.last.gfax0 > 5)
    /\ (FaxDeclared /\ dhist.last.len0 + Len(TableDigits) < MAX_DTMF_DIGITS) =>
           (FaxQueued = 1 /\ dhist.last.app[Len(dhist.last.app)] = FAX_HIT)
    /\ (LastAny /\ ~FaxDeclared) => FaxQueued = 0

\* six blocks of fax tone and a quiet block: the 'f' is queued at the quiet
\* block
C18_Witness ==
    /\ FaxDeclared /\ FaxEnded
    /\ dhist.last.gfax0 = 6
    /\ td.digits = <<FAX_HIT>>
    /\ td.fax_hits = 0

\* ======================================================================
\* The call-progress classifier: C19, C20 (ProgressSpec)
\* ======================================================================
LastTone == thist.last # NoToneBlock

\* ------------------------------------------------------------------ C19
\* C19: the classifier returns a control event (BUSY, ANSWER, RINGING or
\* CONGESTION) only at the end of a 183-sample block that is the third
\* consecutive block with the same classification; fewer than 3 consecutive
\* identical classifications never produce an event.
C19_ThreeInARow ==
    (LastTone /\ thist.last.res # "NONE") => thist.run_len >= COUNT_THRESH

\* ------------------------------------------------------------------ C20
\* C20: the state becomes SPECIAL2 only at a block whose preceding state was
\* SPECIAL1 and becomes SPECIAL3 only at a block whose preceding state was
\* SPECIAL2, for every sequence of block classifications and every split of
\* the samples into calls.
C20_SpecialOrder ==
    LastTone =>
       LET r == thist.last
       IN /\ (r.tstate = TONE_STATE_SPECIAL2 /\ r.tstate0 # TONE_STATE_SPECIAL2)
                => r.tstate0 = TONE_STATE_SPECIAL1
          /\ (r.tstate = TONE_STATE_SPECIAL3 /\ r.tstate0 # TONE_STATE_SPECIAL3)
                => r.tstate0 = TONE_STATE_SPECIAL2

\* ======================================================================
\* Properties of silence and busy cadence
\* ======================================================================
\* the durations in the last busycount slots of both histories
Cadence == {sil.historicsilence[i] : i \in (DSP_HISTORY - sil.busycount + 1)..DSP_HISTORY}
           \cup {sil.historicnoise[i] : i \in (DSP_HISTORY - sil.busycount + 1)..DSP_HISTORY}
Longest(S) == CHOOSE m \in S : \A d \in S : d <= m
Shortest(S) == CHOOSE m \in S : \A d \in S : m <= d

\* C22: ast_dsp_busydetect returns true at most once per silence/noise
\* transition: every call leaves busymaybe clear, a call that finds it clear
\* returns false, and between two calls of __ast_dsp_silence that set
\* busymaybe at most one call returns true.
C22_OncePerTransition ==
    [][BusyDetect =>
          /\ sil'.busymaybe = 0
          /\ sil.busymaybe = 0 => pret'.val = 0
          /\ phist'.trues <= 1]_vars

\* a call returned true and the next call, with no transition in between,
\* has returned false
C22_Witness ==
    /\ pret.op = "busydetect"
    /\ pret.val = 0
    /\ phist.trues = 1

\* C23: a call of ast_dsp_busydetect that finds busymaybe set returns true
\* exactly when the longest and the shortest duration in the last busycount
\* slots of the two histories differ by less than 100 ms, the longest is
\* less than 1100 ms and the shortest is more than 80 ms.
C23_CadenceTest ==
    [][(BusyDetect /\ sil.busymaybe # 0) =>
          (pret'.val = 1 <=>
              /\ Longest(Cadence) - Shortest(Cadence) < BUSY_THRESHOLD
              /\ Longest(Cadence) < BUSY_MAX
              /\ Shortest(Cadence) > BUSY_MIN)]_vars

\* a cadence one short of every bound has been confirmed over five slots
C23_Witness ==
    /\ pret.op = "busydetect"
    /\ pret.val = 1
    /\ sil.busycount = DSP_HISTORY
    /\ Longest(Cadence) = BUSY_MAX - 1
    /\ Shortest(Cadence) = BUSY_MAX - BUSY_THRESHOLD + 1

\* C27: whatever ast_dsp_set_busy_count is asked for, busycount is within
\* 1..5 (3 on a new detector; what was asked for when that is within 1..5,
\* else the nearer bound) and ast_dsp_busydetect reads history slots 0..4
\* only.
C27_BusyCountClamped ==
    /\ sil.busycount \in 1..DSP_HISTORY
    /\ phist.asked = {} => sil.busycount = 3
    /\ pret.op = "set_busy_count" =>
          /\ pret.val \in 1..DSP_HISTORY => sil.busycount = pret.val
          /\ pret.val < 1 => sil.busycount = 1
          /\ pret.val > DSP_HISTORY => sil.busycount = DSP_HISTORY
    /\ phist.read \subseteq 0..(DSP_HISTORY - 1)

\* the detector has been asked for INT_MIN and for INT_MAX cadences and
\* ast_dsp_busydetect has then read all five slots
C27_Witness ==
    /\ {INT_MIN, INT_MAX} \subseteq phist.asked
    /\ pret.op = "busydetect"
    /\ phist.read = 0..(DSP_HISTORY - 1)

\* ======================================================================
\* Properties of the digit detector across resets and changes of mode
\* ======================================================================
\* C29: a call of ast_dsp_digitmode that switches between DTMF and MF
\* leaves the detector in its initial state: no digit queued, no sample of
\* a block taken, hit1, hit2 and hit3 zero.
C29_ModeSwitchInit ==
    [][\A m \in {"DTMF", "MF"} :
          (DigitMode(m) /\ m # digitmode) =>
              /\ td'.digits = <<>>
              /\ td'.current_sample = 0
              /\ td'.hit1 = 0
              /\ td'.hit2 = 0
              /\ td'.hit3 = 0]_vars

\* C24: after ast_dsp_digitreset the detector returns the hits and queues
\* the digits (fax events included) that a new detector in the same mode
\* returns and queues when given the same frames.
C24_ResetIsFresh == dhist.fresh.on => dhist.agree

\* ======================================================================
\* Properties of the call-progress classifier across ast_dsp_reset
\* ======================================================================
\* C30: after ast_dsp_reset nothing of a block begun is left: the block's
\* sample count, its energy accumulator and the accumulators of the seven
\* call-progress filters are zero.
C30_ResetClearsBlock ==
    tret.op = "reset" =>
        /\ tone.gsamps = 0
        /\ tone.genergy = 0
        /\ \A x \in 1..NFREQS : tone.freqs[x] = 0

\* ======================================================================
\* Properties of parse_data
\* ======================================================================
\* the fields of a string: what lies between its commas
Commas(str) == {i \in 1..Len(str) : str[i] = ","}
NthComma(str, n) ==
    IF n = 0 THEN 0
    ELSE IF Cardinality(Commas(str)) < n THEN Len(str) + 1
    ELSE CHOOSE i \in Commas(str) : Cardinality({j \in Commas(str) : j < i}) = n - 1
\* field n (1: the state), empty when the string has fewer fields
Field(str, n) ==
    IF Cardinality(Commas(str)) + 1 < n THEN <<>>
    ELSE SubSeq(str, NthComma(str, n - 1) + 1, NthComma(str, n) - 1)

\* C28: parse_data returns -1 when the state field is empty or no presence
\* state, or when the options field is not empty and holds no 'e'; else it
\* returns 0 with the state and with the subtype, message and options
\* fields of the string, each empty when the string has no such field.
C28_ParseData ==
    pd.op = "parsed" =>
        LET str == pd.data.str
            st == Field(str, 1)
            opts == Field(str, 4)
            bad == \/ st = <<>>
                   \/ st \notin PresenceNames
                   \/ opts # <<>> /\ \A i \in 1..Len(opts) : opts[i] # "e"
        IN /\ pd.ret = IF bad THEN -1 ELSE 0
           /\ pd.ret = 0 =>
                 /\ pd.state = st
                 /\ pd.subtype = Str(Field(str, 2))
                 /\ pd.message = Str(Field(str, 3))
                 /\ pd.options = Str(opts)

\* "away,e,i,e" has been parsed: all four fields are there
C28_Witness ==
    /\ pd.op = "parsed"
    /\ pd.ret = 0
    /\ pd.state = Away
    /\ pd.subtype = Str(<<"e">>)
    /\ pd.message = Str(<<"i">>)
    /\ pd.options = Str(<<"e">>)


\* a step of ast_dsp_process
ProcessCalled == phist'.ncalls = phist.ncalls + 1 /\ pret'.op = "process"

\* C21: a call of ast_dsp_process that emits a BUSY, ANSWER or CONGESTION
\* event leaves the CALL_PROGRESS bit clear; with the bit clear a call emits
\* no call-progress event, so at most one terminal event is emitted until
\* the features are set again; a call that emits RINGING leaves the bit set.
C21_TerminalOnce ==
    [][ProcessCalled =>
         /\ Terminal(pret'.event) => ~tone'.call_progress
         /\ ~tone.call_progress => pret'.event = "NONE"
         /\ phist'.terminals <= 1
         /\ pret'.event = "RINGING" => tone'.call_progress]_vars

\* the detector: everything the calls on a struct ast_dsp keep in it
detector == <<td, digitmode, tone, sil, features, modebits, thinkdigit>>
\* a frame that is not voice or not signed linear
NotSlinearVoice(fr) == fr.frametype # "VOICE" \/ fr.subclass # "SLINEAR"
\* a frame that is not voice or is voice of a format ast_dsp_process does
\* not handle
NotProcessed(fr) ==
    fr.frametype # "VOICE" \/ fr.subclass \notin {"SLINEAR", "ULAW", "ALAW"}

\* C25: given a frame that is not voice or not signed linear,
\* ast_dsp_silence, ast_dsp_digitdetect and ast_dsp_call_progress return 0;
\* given a frame that is not voice or of an unsupported format,
\* ast_dsp_process returns the frame itself; every one of them leaves the
\* detector and the samples of the frame as they were.
C25_WrongFrameNoOp ==
    [][/\ \A fr \in DetectorFrames :
            NotSlinearVoice(fr) =>
               /\ Silence(fr) => pret'.val = 0 /\ UNCHANGED detector
               /\ DigitDetectFrame(fr) => dret'.val = 0 /\ UNCHANGED detector
               /\ CallProgressFrame(fr, TONE_STATE_SILENCE) =>
                     tret'.val = "NONE" /\ UNCHANGED detector
       /\ \A c \in ProcCalls :
            (c[1] # NullAf /\ NotProcessed(c[1])
             /\ Process(c[1], c[2], TONE_STATE_SILENCE)) =>
               /\ pret'.val = "af"
               /\ ~pret'.zeroed /\ ~pret'.writeback
               /\ pret'.queued = <<>> /\ pret'.event = "NONE"
               /\ pret'.f = OldF
               /\ UNCHANGED detector]_vars
\* ast_dsp_digitdetect and ast_dsp_call_progress have returned without a
\* block counted, and ast_dsp_process has returned af with call progress on
\* and the tone detector as new
C25_Witness ==
    /\ dret.op = "digitdetect" /\ dret.val = 0 /\ dhist.nblocks = 0
    /\ tret.op = "call_progress" /\ tret.val = "NONE" /\ thist.nblocks = 0
    /\ pret.op = "process" /\ pret.val = "af"
    /\ tone.call_progress /\ tone = [NewTone EXCEPT !.call_progress = TRUE]
    /\ "DTMF_DETECT" \in features /\ td = NewDetector

\* C26: with the no-quelch bit set in the digit mode of the detector, a
\* call of ast_dsp_process zeroes no sample of the frame and does not raise
\* writeback.
C26_NoQuelchKeepsSamples ==
    [][(ProcessCalled /\ "NOQUELCH" \in modebits) =>
          ~pret'.zeroed /\ ~pret'.writeback]_vars

\* C36: while a dispatch runs, the index num at which skip[] is read or
\* written is below the size skip[] was allocated with, also when a callback
\* of the dispatch attaches a hook to the channel.
C36_SkipIndexInBounds ==
    pc = "push_cb" => num < Len(skip)

\* C38: without a reset or a change of mode, detected_digits is the number
\* of digits ever appended to the queue plus lost_digits: it holds when the
\* detector is first looked at, every call of ast_dsp_digitdetect keeps the
\* digits queued before and counts as detected what it appends plus what it
\* loses, block by block, and ast_dsp_getdigits changes neither counter.
C38_DetectedIsQueuedPlusLost ==
    /\ td.detected_digits = Len(td.digits) + td.lost_digits
    /\ [][/\ dret'.op = "digitdetect" =>
              /\ SubSeq(td'.digits, 1, Len(td.digits)) = td.digits
              /\ td'.detected_digits - td.detected_digits
                    = (Len(td'.digits) - Len(td.digits))
                      + (td'.lost_digits - td.lost_digits)
              /\ dhist'.last # NoBlock =>
                    /\ dhist'.last.kept
                    /\ dhist'.last.cnt
                          = Len(dhist'.last.app) + dhist'.last.lost
          /\ dret'.op = "getdigits" =>
              /\ td'.detected_digits = td.detected_digits
              /\ td'.lost_digits = td.lost_digits]_vars
\* a confirmation has found the queue full and been counted as lost, after
\* one that was queued
C38_Witness ==
    /\ dret.op = "digitdetect"
    /\ dhist.last # NoBlock
    /\ dhist.last.cnt = 1
    /\ dhist.last.lost = 1
    /\ td.lost_digits = 1
    /\ td.detected_digits = MAX_DTMF_DIGITS + 1

\* what the blocks of a stream depend on and leave behind: the detector but
\* for mhit, which the return of every call sets anew
Carried(s) == [s EXCEPT !.mhit = 0]
\* the samples of the stream the splits are compared on, and where it is cut
StreamLen == 2 * DTMF_GSIZE
Cuts == {1, DTMF_GSIZE \div 2, DTMF_GSIZE, DTMF_GSIZE + 1, StreamLen - 1}

\* C39: the DTMF detector's block position stays within 0..101 between
\* calls, a call evaluates a block exactly when its 102nd sample arrives,
\* and a stream handed over as two frames, wherever it is cut, evaluates the
\* same blocks, queues the same digits and leaves the same detector as the
\* stream handed over as one frame.
C39_SplitIndependent ==
    digitmode = "DTMF" =>
       /\ td.current_sample \in 0..(DTMF_GSIZE - 1)
       /\ \A bs \in [1..BlocksIn("DTMF", td, StreamLen) -> DtmfBlocks] :
             LET whole == DetectLoop("DTMF", td, 0, StreamLen, bs, <<>>)
             IN \A cut \in Cuts :
                   LET n1 == (td.current_sample + cut) \div DTMF_GSIZE
                       a == DetectLoop("DTMF", td, 0, cut, SubSeq(bs, 1, n1), <<>>)
                       b == DetectLoop("DTMF", DetectReturn(a).s, 0,
                                       StreamLen - cut,
                                       SubSeq(bs, n1 + 1, Len(bs)), <<>>)
                   IN /\ Len(a.recs) = n1
                      /\ a.s.current_sample
                            = (td.current_sample + cut) % DTMF_GSIZE
                      /\ a.recs \o b.recs = whole.recs
                      /\ b.s.digits = whole.s.digits
                      /\ Carried(b.s) = Carried(whole.s)
\* a frame has left the detector in the middle of a block after a block
\* that queued a digit
C39_Witness ==
    /\ digitmode = "DTMF"
    /\ dret.op = "digitdetect"
    /\ td.current_sample = DTMF_GSIZE \div 2
    /\ dhist.last # NoBlock
    /\ dhist.last.app # <<>>

\* C33: from the same detector state and without fax tone, a DTMF block and
\* an MF block with the same hit give the same hit history, confirm the
\* same digit, and the MF detector queues the digit it confirms when fewer
\* than 128 digits are queued and counts it as lost otherwise.  (Compared
\* on the queues an MF detector can hold: up to MAX_DTMF_DIGITS - 2 digits.)
C33_MfLikeDtmf ==
    (td.fax_hits = 0 /\ Len(td.digits) <= MAX_DTMF_DIGITS - 2) =>
       \A db \in {b \in DtmfBlocks : ~b.fax}, mb \in MfBlocks :
          LET d == DtmfBlockEnd(td, db)
              m == MfBlockEnd(td, mb)
          IN DtmfBlockEnd(NewDetector, db).hit = MfBlockEnd(NewDetector, mb).hit =>
                /\ m.hit = d.hit
                /\ Carried(m.s) = Carried(d.s)
                /\ m.s.mhit = d.s.mhit
                /\ m.s.detected_digits > td.detected_digits =>
                      IF Len(td.digits) < MAX_DTMF_DIGITS
                      THEN /\ m.s.digits = Append(td.digits, m.hit)
                           /\ m.s.lost_digits = td.lost_digits
                      ELSE /\ m.s.digits = td.digits
                           /\ m.s.lost_digits = td.lost_digits + 1

\* ======================================================================
\* Properties of the digit handling of ast_dsp_process
\* ======================================================================
\* digit detection runs in a mute-conference mode / in the plain mode
Muting == modebits \cap {"MUTECONF", "MUTEMAX"} # {}

\* C34: in the mute-conference modes, over calls of ast_dsp_process and
\* ast_dsp_digitreset, an 'm' is returned only on a call whose detection
\* reports a digit and only when no 'm' is unmatched, a 'u' only when an
\* 'm' is unmatched, and a call whose detection reports no digit while an
\* 'm' is unmatched returns the 'u'.
C34_MarkerPairs ==
    [][(ProcessCalled /\ Muting) =>
          /\ Marker(pret', MUTE_CHAR) => (~phist.open /\ pret'.digit > 0)
          /\ Marker(pret', UNMUTE_CHAR) => phist.open
          /\ (phist.open /\ pret'.digit = 0) => Marker(pret', UNMUTE_CHAR)]_vars

\* C40 as stated: in the mute-conference modes a digit is forwarded to the
\* channel at most once per 'm'/'u' pair, and only when digit detection
\* reported a digit on the two calls of ast_dsp_process before the one
\* that forwards it; after a detection reported on a single call the 'u'
\* comes with no digit forwarded.
C40_ForwardedAfterTwoCalls ==
    [][(ProcessCalled /\ Muting) =>
          /\ phist'.fwd <= 1
          /\ Forwarded(pret') > 0 => phist.reports >= 2
          /\ (Marker(pret', UNMUTE_CHAR) /\ phist.runs = 1)
                => Forwarded(pret') = 0]_vars

\* C40: in the mute-conference modes a digit is forwarded to the channel
\* at most once per 'm'/'u' pair, and only when digit detection reported a
\* digit on the last two calls of ast_dsp_process that ran it (calls that
\* return before digit detection may lie between them); after a detection
\* reported on a single call the 'u' comes with no digit forwarded.
C40_ForwardedAfterTwoReports ==
    [][(ProcessCalled /\ Muting) =>
          /\ phist'.fwd <= 1
          /\ Forwarded(pret') > 0 => phist.runs >= 2
          /\ (Marker(pret', UNMUTE_CHAR) /\ phist.runs = 1)
                => Forwarded(pret') = 0]_vars
\* a digit has been forwarded before the 'u' although a call that ran no
\* digit detection lay between the two that reported it
C40_Witness ==
    /\ Muting
    /\ pret.op = "process"
    /\ Marker(pret, UNMUTE_CHAR)
    /\ Forwarded(pret) = 1
    /\ phist.nidle = 1

\* what a step appended to the digit queue: the digits it detected but for
\* those it lost
Appended == (td'.detected_digits - td.detected_digits)
            - (td'.lost_digits - td.lost_digits)
\* a is what b begins with
IsPrefix(a, b) == Len(a) <= Len(b) /\ SubSeq(b, 1, Len(a)) = a
\* the call returned &dsp->f holding a digit
DigitFrame(out) == out.val = "dspf" /\ out.f.frametype = "DTMF"

\* C35 as stated: in plain digit mode with digit detection enabled, a call
\* of ast_dsp_process on a voice frame in which no hit is in progress,
\* whatever other features are enabled (digit detection reports no digit,
\* or the frame is silent and silence suppression hands back the null
\* frame), returns the oldest queued digit.
C35_DrainedWhateverFeatures ==
    [][(/\ ProcessCalled
        /\ ~Muting
        /\ "DTMF_DETECT" \in features
        /\ td.digits # <<>>
        /\ \/ pret'.digit = 0
           \/ pret'.val = "dspf" /\ pret'.f.frametype = "NULL")
          => /\ DigitFrame(pret')
             /\ pret'.f.subclass = Head(td.digits)]_vars

\* C35: in plain digit mode with digit detection enabled, a call of
\* ast_dsp_process whose digit detection runs and reports no digit while
\* a digit is queued returns the oldest queued digit as a DTMF frame and
\* removes exactly that digit; every other call returns no digit and
\* removes none, so digits come out one per call in detection order.
C35_DrainedInOrder ==
    [][(ProcessCalled /\ ~Muting /\ "DTMF_DETECT" \in features) =>
          IF pret'.digit = 0 /\ Len(td.digits) + Appended > 0
          THEN /\ DigitFrame(pret')
               /\ Len(td'.digits) = Len(td.digits) + Appended - 1
               /\ td.digits # <<>> =>
                     /\ pret'.f.subclass = Head(td.digits)
                     /\ IsPrefix(Tail(td.digits), td'.digits)
          ELSE /\ ~DigitFrame(pret')
               /\ Len(td'.digits) = Len(td.digits) + Appended
               /\ IsPrefix(td.digits, td'.digits)]_vars
\* the older of two different queued digits has been returned and the
\* newer one is left
C35_Witness ==
    /\ ~Muting
    /\ pret.op = "process"
    /\ DigitFrame(pret)
    /\ Len(td.digits) = 1
    /\ pret.f.subclass # td.digits[1]

\* C37: ast_dsp_busydetect returns true only when at least busycount runs
\* of noise and at least busycount runs of silence have been recorded in
\* the histories since ast_dsp_new or the last ast_dsp_reset.
C37_BusyNeedsRecordedRuns ==
    [][(BusyDetect /\ pret'.val = 1) =>
          /\ phist.nnoise >= sil.busycount
          /\ phist.nsilence >= sil.busycount]_vars
\* ast_dsp_busydetect has returned true on histories that hold two runs
\* each, after busycount was lowered
C37_Witness ==
    /\ pret.op = "busydetect"
    /\ pret.val = 1
    /\ phist.nnoise = 2
    /\ phist.nsilence = 2
    /\ sil.busycount <= 2

\* ======================================================================
\* Properties of the energy tests of the digit detector
\* ======================================================================
\* the peak of the energies e
Peak(e) == CHOOSE x \in {e[i] : i \in DOMAIN e} : \A i \in DOMAIN e : e[i] <= x
\* a DTMF block has been measured as a hit
DtmfHit == en.kind = "DTMF" /\ en.done /\ en.out.hit # 0

\* C31 as stated: a block is a DTMF hit only if the best column energy lies
\* within [row/REVERSE_TWIST, row*NORMAL_TWIST] of the best row energy
\* (NORMAL_TWIST 6.3, REVERSE_TWIST 2.5, 4.0 in relaxed mode) and both are
\* at least DTMF_THRESHOLD.
C31_TwistAsStated ==
    DtmfHit =>
       LET row == Peak(en.rows)
           col == Peak(en.cols)
       IN /\ row >= DTMF_THRESHOLD
          /\ col >= DTMF_THRESHOLD
          /\ col * (IF en.relaxed THEN DTMF_REVERSE_TWIST_RELAXED
                    ELSE DTMF_REVERSE_TWIST) >= row * 10
          /\ col * 10 <= row * DTMF_NORMAL_TWIST

\* C31: a block is a DTMF hit only if the best column energy lies strictly
\* between row/NORMAL_TWIST and row*REVERSE_TWIST of the best row energy
\* (NORMAL_TWIST 6.3, REVERSE_TWIST 2.5, 4.0 in relaxed mode) and both are
\* at least DTMF_THRESHOLD.
C31_Twist ==
    DtmfHit =>
       LET row == Peak(en.rows)
           col == Peak(en.cols)
       IN /\ row >= DTMF_THRESHOLD
          /\ col >= DTMF_THRESHOLD
          /\ col * DTMF_NORMAL_TWIST > row * 10
          /\ col * 10 < row * (IF en.relaxed THEN DTMF_REVERSE_TWIST_RELAXED
                               ELSE DTMF_REVERSE_TWIST)
\* a hit whose column is a fifth as strong as its row
C31_Witness ==
    /\ DtmfHit
    /\ Peak(en.rows) = 5 * Peak(en.cols)

\* the tones of e that are as strong as the n-th strongest (from 1)
Ranked(e, n) ==
    {i \in 0..(Len(e) - 1) :
        Cardinality({x \in {e[j] : j \in DOMAIN e} : x > e[i + 1]}) = n - 1}

\* C32: when one tone is the strongest and one other tone the second
\* strongest of the six, the end of an MF block selects these two, as two
\* different indices, and the hit, when the block passes the relative peak
\* and second harmonic tests on them, is their entry of the MF table.
C32_MfTwoStrongest ==
    (en.kind = "MF" /\ en.done
       /\ Cardinality(Ranked(en.tones, 1)) = 1
       /\ Cardinality(Ranked(en.tones, 2)) = 1) =>
          LET a == CHOOSE i \in Ranked(en.tones, 1) : TRUE
              b == CHOOSE i \in Ranked(en.tones, 2) : TRUE
              others == (0..5) \ {a, b}
              clean == /\ en.harm
                       /\ \A i \in others :
                             /\ en.tones[a + 1] * 10 >= en.tones[i + 1] * MF_RELATIVE_PEAK
                             /\ en.tones[b + 1] * 10 >= en.tones[i + 1] * MF_RELATIVE_PEAK
          IN /\ en.out.best1 = a
             /\ en.out.best2 = b
             /\ en.out.best1 # en.out.best2
             /\ en.out.hit = IF clean THEN mf_hit[a + 1][b + 1] ELSE 0

====
